---- MODULE Spec2Model ----
(***************************************************************************)
(* Model of RenderSceneImpl (src/renderer/render_scene.cpp): the object    *)
(* table m_model_instances, the broad-phase culling index, the point       *)
(* lights with their influence lists, and the handlers that keep them in   *)
(* step (setModel, modelLoaded, modelUnloaded, onEntityMoved, ...).        *)
(*                                                                         *)
(* Geometry is kept along one axis: a position is an integer coordinate, a *)
(* sphere is [position, radius] and a frustum is an interval [lo, hi].     *)
(* Along one axis the ortho box of half-extent m_range that                *)
(* getPointLightFrustum builds and the sphere {position, m_range} are the  *)
(* same interval.  The coordinates of Positions are chosen so that no two  *)
(* volumes of the model are ever exactly tangent.                          *)
(*                                                                         *)
(* Every handler is a function from scene record to scene record, so that  *)
(* a handler calling another (destroyModelInstance -> setModel ->          *)
(* modelLoaded) is the composition of the functions; an action applies one *)
(* handler to the current scene and commits the result.                    *)
(***************************************************************************)
EXTENDS Integers, Sequences, FiniteSets, TLC

\* ------------------------------------------------------------------ bounds
\* Entities of the universe are 0 .. MaxEntities-1.
MaxEntities == 2
\* Most point lights alive at once.
MaxLights == 1
\* Highest component id createPointLight hands out in a run.
MaxLightCmp == 1
\* Longest influence list a run may build (the lists can hold duplicates).
MaxInfluence == 2

\* ------------------------------------------------------- program constants
INVALID_ENTITY == -1
INVALID_COMPONENT == -1
\* light.m_range = 10 in createPointLight
DefaultLightRange == 10

\* nullptr of Model*
NoModel == 0
Models == {1, 2}
ModelRefs == Models \cup {NoModel}

Entities == 0 .. (MaxEntities - 1)
Positions == {0, 13}
Scales == {1, 2}

\* Layer masks are sets of bit indices of a u64; a & b != 0 is a non-empty
\* intersection.
LayerBits == 0 .. 63

\* Model::getBoundingRadius(): the object-space bounding radius of a model.
BoundingRadius(model) == 2 * model

\* Model::getBoneCount(): model 2 is skinned.
BoneCount(model) == IF model = 2 THEN 1 ELSE 0

\* The OR of getRenderLayerMask() over the materials of the model's meshes.
ModelLayerMask(model) == IF model = 1 THEN {0} ELSE {40}

\* Model::getMeshCount(): model 1 has one mesh, model 2 has three.
MeshCount(model) == IF model = 1 THEN 1 ELSE 3

\* Materials are numbers; 0 is the null material, MeshMaterial(model, i) is
\* model->getMesh(i).material, OverrideMaterials are the materials that
\* setModelInstanceMaterial loads from a path.
NoMaterial == 0
MeshMaterial(model, i) == 10 * model + i
OverrideMaterials == {90}
\* The mesh indices setModelInstanceMaterial is called with.
OverrideIndices == {0}

\* ModelInstance::meshes: nullptr, the mesh array of a model, or a private
\* copy (custom_meshes) whose meshes are kept by their materials.
NullMeshes == [ptr |-> "nullptr", of |-> NoModel, mats |-> <<>>]
ModelMeshes(model) == [ptr |-> "model", of |-> model, mats |-> <<>>]
CustomMeshes(mats) == [ptr |-> "custom", of |-> NoModel, mats |-> mats]

\* The material of meshes[i].
MaterialAt(meshes, i) ==
    IF meshes.ptr = "model" THEN MeshMaterial(meshes.of, i) ELSE meshes.mats[i + 1]

VARIABLES
    position,                     \* Universe::getPosition, per entity
    scale,                        \* Universe::getScale, per entity
    entity_destroyed,             \* entities the universe has destroyed
    hidden,                       \* handles hideModelInstance was called on, not shown since
    model_ready,                  \* Model::isReady(), per model
    m_model_instances,            \* Array<ModelInstance>, slot i at [i + 1]
    m_culling_system,             \* the broad-phase index: its entries in order
    m_point_lights,               \* Array<PointLight>
    m_light_influenced_geometry,  \* Array<Array<ComponentHandle>>
    m_point_lights_map,           \* HashMap<ComponentHandle, int>
    m_point_light_last_cmp,       \* last component id handed out
    m_model_loaded_callbacks,     \* AssociativeArray<Model*, ModelLoadedCallback>
    ref_count,                    \* Resource reference count, per model
    log,                          \* trace of the last operation: addStatic calls, failed ASSERTs
    m_lod_multiplier,             \* the global LOD multiplier
    m_temporary_infos,            \* Array<Array<ModelInstanceMesh>>: the draw records
    m_jobs,                       \* Array<MTJD::Job*>: the jobs of the last query
    cull_result,                      \* CullingSystem::getResult() of the running query
    frame,                        \* arguments of the running getModelInstanceInfos
    lod_lookups,                  \* getLODMeshIndices calls of the running query
    pc                            \* where the main thread is in getModelInstanceInfos

\* The variables of the scene proper, and those of the visibility job pipeline.
scene_vars == <<position, scale, entity_destroyed, hidden, model_ready, m_model_instances, m_culling_system,
                m_point_lights, m_light_influenced_geometry, m_point_lights_map,
                m_point_light_last_cmp, m_model_loaded_callbacks, ref_count>>

job_vars == <<m_lod_multiplier, m_temporary_infos, m_jobs, cull_result, frame, lod_lookups, pc>>

vars == <<position, scale, entity_destroyed, hidden, model_ready, m_model_instances, m_culling_system,
          m_point_lights, m_light_influenced_geometry, m_point_lights_map,
          m_point_light_last_cmp, m_model_loaded_callbacks, ref_count, log,
          m_lod_multiplier, m_temporary_infos, m_jobs, cull_result, frame, lod_lookups, pc>>

\* The scene as one record; the log starts empty for every operation.
Scene ==
    [position |-> position, scale |-> scale, model_ready |-> model_ready,
     m_model_instances |-> m_model_instances,
     m_culling_system |-> m_culling_system,
     m_point_lights |-> m_point_lights,
     m_light_influenced_geometry |-> m_light_influenced_geometry,
     m_point_lights_map |-> m_point_lights_map,
     m_point_light_last_cmp |-> m_point_light_last_cmp,
     m_model_loaded_callbacks |-> m_model_loaded_callbacks,
     ref_count |-> ref_count,
     log |-> <<>>]

\* The bound on the influence lists, as a guard on what an operation may build.
WithinBounds(S) ==
    \A i \in 1 .. Len(S.m_light_influenced_geometry) :
        Len(S.m_light_influenced_geometry[i]) <= MaxInfluence

\* An operation of the main thread on the scene: it runs while no visibility
\* query is under way and leaves the job pipeline alone.
Commit(S) ==
    /\ pc = "idle"
    /\ UNCHANGED job_vars
    /\ WithinBounds(S)
    /\ position' = S.position
    /\ scale' = S.scale
    /\ UNCHANGED entity_destroyed
    /\ UNCHANGED hidden
    /\ model_ready' = S.model_ready
    /\ m_model_instances' = S.m_model_instances
    /\ m_culling_system' = S.m_culling_system
    /\ m_point_lights' = S.m_point_lights
    /\ m_light_influenced_geometry' = S.m_light_influenced_geometry
    /\ m_point_lights_map' = S.m_point_lights_map
    /\ m_point_light_last_cmp' = S.m_point_light_last_cmp
    /\ m_model_loaded_callbacks' = S.m_model_loaded_callbacks
    /\ ref_count' = S.ref_count
    /\ log' = S.log

\* An operation of the main thread after which the handles in h are the
\* hidden ones.
CommitHidden(S, h) ==
    /\ pc = "idle"
    /\ UNCHANGED job_vars
    /\ WithinBounds(S)
    /\ position' = S.position
    /\ scale' = S.scale
    /\ UNCHANGED entity_destroyed
    /\ hidden' = h
    /\ model_ready' = S.model_ready
    /\ m_model_instances' = S.m_model_instances
    /\ m_culling_system' = S.m_culling_system
    /\ m_point_lights' = S.m_point_lights
    /\ m_light_influenced_geometry' = S.m_light_influenced_geometry
    /\ m_point_lights_map' = S.m_point_lights_map
    /\ m_point_light_last_cmp' = S.m_point_light_last_cmp
    /\ m_model_loaded_callbacks' = S.m_model_loaded_callbacks
    /\ ref_count' = S.ref_count
    /\ log' = S.log

\* ------------------------------------------------------------------ helpers
Emit(S, op, arg) == [S EXCEPT !.log = Append(@, [op |-> op, arg |-> arg])]

\* The scene but for its trace.
Untraced(S) == [S EXCEPT !.log = <<>>]

isValid(entity) == entity # INVALID_ENTITY

Size(S) == Len(S.m_model_instances)
Inst(S, index) == S.m_model_instances[index + 1]
SetInst(S, index, r) == [S EXCEPT !.m_model_instances[index + 1] = r]

\* A slot as createModelInstance fills the gaps: dead, no model, no pose.  The
\* other fields of a gap slot are written before they are ever read.
EmptyInstance ==
    [entity |-> INVALID_ENTITY, model |-> NoModel, pose |-> FALSE, matrix |-> 0,
     meshes |-> NullMeshes, mesh_count |-> 0, custom_meshes |-> FALSE]

\* ResourceManager load and unload of a model: the reference count moves.
load(S, model) == [S EXCEPT !.ref_count[model] = @ + 1]
unload(S, model) == [S EXCEPT !.ref_count[model] = @ - 1]

isReady(S, model) == model # NoModel /\ S.model_ready[model]

\* Array::eraseFast(index): the last element takes the place of the erased one.
eraseFast(arr, j) ==
    IF j = Len(arr) THEN SubSeq(arr, 1, Len(arr) - 1)
    ELSE [k \in 1 .. (Len(arr) - 1) |-> IF k = j THEN arr[Len(arr)] ELSE arr[k]]

\* Array::erase(index): the elements after the erased one move down.
erase(arr, j) == [k \in 1 .. (Len(arr) - 1) |-> IF k < j THEN arr[k] ELSE arr[k + 1]]

\* Array::indexOf(item): position of the first occurrence, 0 when absent.
indexOf(arr, item) ==
    IF \E k \in 1 .. Len(arr) : arr[k] = item
    THEN CHOOSE k \in 1 .. Len(arr) : arr[k] = item /\ \A j \in 1 .. (k - 1) : arr[j] # item
    ELSE 0

\* Array::eraseItemFast(item): eraseFast of the first occurrence, if any.
eraseItemFast(arr, item) == IF indexOf(arr, item) = 0 THEN arr ELSE eraseFast(arr, indexOf(arr, item))

\* The loops "find the first j with arr[j] == item, erase it, break".
eraseFirst(arr, item) == IF indexOf(arr, item) = 0 THEN arr ELSE erase(arr, indexOf(arr, item))

Count(arr, item) == Cardinality({k \in 1 .. Len(arr) : arr[k] = item})

\* ------------------------------------------------------------------ geometry
Sphere(pos, radius) == [position |-> pos, radius |-> radius]

\* Frustum::isSphereInside: the sphere reaches into the volume.
isSphereInside(frustum, pos, radius) ==
    pos + radius >= frustum.lo /\ pos - radius <= frustum.hi

\* ------------------------------------------------- broad-phase culling index
isAdded(S, cmp) ==
    \E k \in 1 .. Len(S.m_culling_system) : S.m_culling_system[k].cmp = cmp

getSphere(S, cmp) ==
    LET k == CHOOSE k \in 1 .. Len(S.m_culling_system) : S.m_culling_system[k].cmp = cmp
    IN  S.m_culling_system[k].sphere

\* CullingSystem::addStatic: asserts when the handle is already present.
addStatic(S, cmp, sphere, layer_mask) ==
    IF isAdded(S, cmp)
    THEN Emit(Emit(S, "addStatic", cmp), "ASSERT addStatic: already present", cmp)
    ELSE Emit([S EXCEPT !.m_culling_system =
                   Append(@, [cmp |-> cmp, sphere |-> sphere, layer_mask |-> layer_mask])],
              "addStatic", cmp)

\* CullingSystem::removeStatic: nothing to do for an absent handle.
removeStatic(S, cmp) ==
    [S EXCEPT !.m_culling_system = SelectSeq(@, LAMBDA e : e.cmp # cmp)]

\* CullingSystem::updateBoundingSphere: replaces the sphere of a present handle.
updateBoundingSphere(S, sphere, cmp) ==
    [S EXCEPT !.m_culling_system =
        [k \in 1 .. Len(@) |-> IF @[k].cmp = cmp THEN [@[k] EXCEPT !.sphere = sphere] ELSE @[k]]]

\* CullingSystem::cullToFrustum + getResult, flattened: the handles whose
\* sphere reaches into the frustum and whose mask shares a bit with the query.
cullToFrustum(S, frustum, layer_mask) ==
    LET hit == SelectSeq(S.m_culling_system,
                   LAMBDA e : /\ isSphereInside(frustum, e.sphere.position, e.sphere.radius)
                              /\ e.layer_mask \cap layer_mask # {})
    IN  [k \in 1 .. Len(hit) |-> hit[k].cmp]

\* -------------------------------------------------------------- point lights
NumLights(S) == Len(S.m_point_lights)

\* getPointLightFrustum: computeOrtho around the light's entity with half-extent
\* m_range.  The light is looked up through m_point_lights_map[cmp].
getPointLightFrustum(S, cmp) ==
    LET light == S.m_point_lights[S.m_point_lights_map[cmp] + 1]
    IN  [lo |-> S.position[light.m_entity] - light.m_range,
         hi |-> S.position[light.m_entity] + light.m_range]

\* detectLightInfluencedGeometry: the light's list becomes the result of a
\* culling query with the light's frustum and the mask 0xffffFFFF.
detectLightInfluencedGeometry(S, cmp) ==
    LET frustum == getPointLightFrustum(S, cmp)
        results == cullToFrustum(S, frustum, 0 .. 31)
    IN  [S EXCEPT !.m_light_influenced_geometry[S.m_point_lights_map[cmp] + 1] = results]

\* createPointLight
createPointLight(S, entity) ==
    LET cmp == S.m_point_light_last_cmp + 1
        light == [m_entity |-> entity, m_component |-> cmp, m_range |-> DefaultLightRange]
        S1 == [S EXCEPT !.m_point_lights = Append(@, light),
                        !.m_light_influenced_geometry = Append(@, <<>>),
                        !.m_point_light_last_cmp = cmp,
                        !.m_point_lights_map = (cmp :> Len(S.m_point_lights)) @@ @]
    IN  detectLightInfluencedGeometry(S1, cmp)

\* setLightRange that recomputes the light's influence list for the new range.
setLightRange_recomputed(S, cmp, value) ==
    detectLightInfluencedGeometry(
        [S EXCEPT !.m_point_lights[S.m_point_lights_map[cmp] + 1].m_range = value], cmp)

\* setLightRange
setLightRange(S, cmp, value) ==
    [S EXCEPT !.m_point_lights[S.m_point_lights_map[cmp] + 1].m_range = value]

\* destroyPointLight: eraseFast in both arrays, then the moved light's map
\* entry is repaired.
destroyPointLight(S, component) ==
    LET index == S.m_point_lights_map[component]
        lights == eraseFast(S.m_point_lights, index + 1)
        erased == [c \in DOMAIN S.m_point_lights_map \ {component} |-> S.m_point_lights_map[c]]
    IN  [S EXCEPT !.m_point_lights = lights,
                  !.m_light_influenced_geometry = eraseFast(@, index + 1),
                  !.m_point_lights_map =
                      IF index < Len(lights)
                      THEN [erased EXCEPT ![lights[index + 1].m_component] = index]
                      ELSE erased]

\* ------------------------------------------------------------- object table
\* getLayerMask(ModelInstance&)
getLayerMask(S, r) == IF ~isReady(S, r.model) THEN {0} ELSE ModelLayerMask(r.model)

\* allocateCustomMeshes: the object gets a private mesh array of count meshes;
\* the meshes it had are copied, the new ones have no material.  The copy loop
\* runs over the old mesh_count: with count below it the copy runs past the
\* end of the new array, which is recorded and modelled as a truncation.
allocateCustomMeshes(S, component, count) ==
    LET r == Inst(S, component)
        S1 == IF r.model = NoModel
              THEN Emit(S, "ASSERT allocateCustomMeshes: r.model", component) ELSE S
        S2 == IF r.meshes.ptr # "nullptr" /\ r.mesh_count > count
              THEN Emit(S1, "allocateCustomMeshes: copy past the end", component) ELSE S1
        new_meshes == [i \in 1 .. count |->
                          IF r.meshes.ptr # "nullptr" /\ i <= r.mesh_count
                          THEN MaterialAt(r.meshes, i - 1) ELSE NoMaterial]
    IN  IF r.custom_meshes /\ r.mesh_count = count THEN S
        ELSE SetInst(S2, component,
                     [r EXCEPT !.meshes = CustomMeshes(new_meshes),
                               !.mesh_count = count,
                               !.custom_meshes = TRUE])

\* freeCustomMeshes
freeCustomMeshes(r) ==
    IF ~r.custom_meshes THEN r
    ELSE [r EXCEPT !.meshes = NullMeshes, !.custom_meshes = FALSE, !.mesh_count = 0]

\* The mesh part of modelLoaded: a private mesh array is resized to the
\* model's mesh count and its empty meshes take the model's materials; without
\* one the object points at the model's own meshes.
modelLoadedMeshes(S, model, component) ==
    LET r == Inst(S, component)
        S1 == IF r.meshes.ptr # "nullptr" /\ ~r.custom_meshes
              THEN Emit(S, "ASSERT modelLoaded: !r.meshes || r.custom_meshes", component)
              ELSE S
        S2 == allocateCustomMeshes(S1, component, MeshCount(model))
        r2 == Inst(S2, component)
        synced == [i \in 1 .. r2.mesh_count |->
                      IF r2.meshes.mats[i] = NoMaterial THEN MeshMaterial(model, i - 1)
                      ELSE r2.meshes.mats[i]]
    IN  IF r.meshes.ptr # "nullptr"
        THEN SetInst(S2, component, [r2 EXCEPT !.meshes = CustomMeshes(synced)])
        ELSE SetInst(S1, component,
                     [r EXCEPT !.meshes = ModelMeshes(r.model),
                               !.mesh_count = MeshCount(r.model)])

\* modelLoaded(Model*, ComponentHandle): the object enters the index and the
\* influence lists.  The sphere is built from r.matrix before r.matrix is
\* refreshed; the influence test uses the refreshed matrix and the unscaled
\* bounding radius.
modelLoaded(S, model, component) ==
    LET r == Inst(S, component)
        bounding_radius == BoundingRadius(r.model)
        sphere == Sphere(r.matrix, bounding_radius * S.scale[r.entity])
        S1 == addStatic(S, component, sphere, getLayerMask(S, r))
        S2 == IF r.pose THEN Emit(S1, "ASSERT modelLoaded: !r.pose", component) ELSE S1
        t == S.position[r.entity]
        S2a == SetInst(S2, component,
                       [r EXCEPT !.pose = IF BoneCount(model) > 0 THEN TRUE ELSE @,
                                 !.matrix = t])
        S3 == modelLoadedMeshes(S2a, model, component)
        radius == BoundingRadius(r.model)
        reaches(i) ==
            LET light == S.m_point_lights[i]
                d == t - S.position[light.m_entity]
            IN  d * d < (radius + light.m_range) * (radius + light.m_range)
    IN  [S3 EXCEPT !.m_light_influenced_geometry =
            [i \in 1 .. Len(@) |->
                IF i <= NumLights(S) /\ reaches(i) THEN Append(@[i], component) ELSE @[i]]]

\* modelUnloaded without the delete of the pose.
modelUnloaded_keepsPose(S, model, component) ==
    LET r == Inst(S, component)
        S1 == SetInst(S, component,
                      [r EXCEPT !.meshes = IF r.custom_meshes THEN @ ELSE NullMeshes,
                                !.mesh_count = IF r.custom_meshes THEN @ ELSE 0])
        S2 == [S1 EXCEPT !.m_light_influenced_geometry =
                  [i \in 1 .. Len(@) |->
                      IF i <= NumLights(S) THEN eraseItemFast(@[i], component) ELSE @[i]]]
    IN  removeStatic(S2, component)

\* modelUnloaded without the removeStatic call: the entry outlives the model.
modelUnloaded_keepsEntry(S, model, component) ==
    LET r == Inst(S, component)
        S1 == SetInst(S, component,
                      [r EXCEPT !.pose = FALSE,
                                !.meshes = IF r.custom_meshes THEN @ ELSE NullMeshes,
                                !.mesh_count = IF r.custom_meshes THEN @ ELSE 0])
    IN  [S1 EXCEPT !.m_light_influenced_geometry =
            [i \in 1 .. Len(@) |->
                IF i <= NumLights(S) THEN eraseItemFast(@[i], component) ELSE @[i]]]

\* modelUnloaded(Model*, ComponentHandle)
modelUnloaded(S, model, component) ==
    LET r == Inst(S, component)
        S1 == SetInst(S, component,
                      [r EXCEPT !.pose = FALSE,
                                !.meshes = IF r.custom_meshes THEN @ ELSE NullMeshes,
                                !.mesh_count = IF r.custom_meshes THEN @ ELSE 0])
        S2 == [S1 EXCEPT !.m_light_influenced_geometry =
                  [i \in 1 .. Len(@) |->
                      IF i <= NumLights(S) THEN eraseItemFast(@[i], component) ELSE @[i]]]
    IN  removeStatic(S2, component)

\* The handles modelLoaded(Model*) and modelUnloaded(Model*) fan out to.
Referencing(S, model) ==
    {i \in 0 .. (Size(S) - 1) : Inst(S, i).entity # INVALID_ENTITY /\ Inst(S, i).model = model}

RECURSIVE modelLoadedFrom(_, _, _)
modelLoadedFrom(S, model, i) ==
    IF i >= Size(S) THEN S
    ELSE modelLoadedFrom(IF i \in Referencing(S, model) THEN modelLoaded(S, model, i) ELSE S,
                         model, i + 1)

\* modelLoaded(Model*): every live slot that references the model, in slot order.
modelLoadedAll(S, model) == modelLoadedFrom(S, model, 0)

RECURSIVE modelUnloadedFrom(_, _, _)
modelUnloadedFrom(S, model, i) ==
    IF i >= Size(S) THEN S
    ELSE modelUnloadedFrom(IF i \in Referencing(S, model) THEN modelUnloaded(S, model, i) ELSE S,
                           model, i + 1)

\* modelUnloaded(Model*)
modelUnloadedAll(S, model) == modelUnloadedFrom(S, model, 0)

\* getModelLoadedCallback that emplaces a callback without looking for the
\* one the model has.
getModelLoadedCallback_emplaced(S, model) ==
    [S EXCEPT !.m_model_loaded_callbacks = (model :> 0) @@ @]

\* getModelLoadedCallback: the entry of the model, created with m_ref_count 0.
getModelLoadedCallback(S, model) ==
    IF model \in DOMAIN S.m_model_loaded_callbacks THEN S
    ELSE [S EXCEPT !.m_model_loaded_callbacks = (model :> 0) @@ @]

\* setModel after the identity check: the object lets its old model go and
\* takes the new one.
replaceModel(S0, component, model) ==
    LET model_instance == Inst(S0, component)
        old_model == model_instance.model
        \* the old model is let go: custom meshes freed, callback reference
        \* dropped, index entry removed, resource reference given back
        C0 == SetInst(S0, component, freeCustomMeshes(model_instance))
        C1 == getModelLoadedCallback(C0, old_model)
        ref == C1.m_model_loaded_callbacks[old_model] - 1
        C2 == [C1 EXCEPT !.m_model_loaded_callbacks =
                  IF ref = 0 THEN [m \in DOMAIN @ \ {old_model} |-> @[m]]
                  ELSE [@ EXCEPT ![old_model] = ref]]
        C3 == IF isReady(S0, old_model) THEN removeStatic(C2, component) ELSE C2
        S1 == IF old_model # NoModel THEN unload(C3, old_model) ELSE S0
        S2 == SetInst(S1, component,
                      [Inst(S1, component) EXCEPT !.model = model,
                                                  !.meshes = NullMeshes,
                                                  !.mesh_count = 0,
                                                  !.pose = FALSE])
        \* the new model is taken: callback reference added, live at once if ready
        D1 == getModelLoadedCallback(S2, model)
        D2 == [D1 EXCEPT !.m_model_loaded_callbacks[model] = @ + 1]
        D3 == IF isReady(S2, model) THEN modelLoaded(D2, model, component) ELSE D2
    IN  IF model # NoModel THEN D3 ELSE S2

\* setModel without the identity check: the current model is let go and taken
\* again.
setModel_noIdentityCheck(S, component, model) == replaceModel(S, component, model)

\* setModel: nothing but the unload of the caller's reference when the object
\* has the model already.
setModel(S, component, model) ==
    LET model_instance == Inst(S, component)
        S0 == IF isValid(model_instance.entity) THEN S
              ELSE Emit(S, "ASSERT setModel: isValid(entity)", component)
        old_model == model_instance.model
        no_change == model = old_model /\ old_model # NoModel
    IN  IF no_change THEN unload(S0, old_model)
        ELSE replaceModel(S0, component, model)

\* setModelInstancePath: a valid path is loaded (the load takes a reference on
\* the model), an invalid path is the null model.
setModelInstancePath(S, cmp, path) ==
    LET S1 == IF path # NoModel THEN setModel(load(S, path), cmp, path)
              ELSE setModel(S, cmp, NoModel)
        r == Inst(S1, cmp)
    IN  SetInst(S1, cmp, [r EXCEPT !.matrix = S1.position[r.entity]])

\* setModelInstanceMaterial that sizes the private meshes to the index alone.
setModelInstanceMaterial_toIndex(S, cmp, index, path) ==
    LET S1 == allocateCustomMeshes(S, cmp, index + 1)
    IN  SetInst(S1, cmp, [Inst(S1, cmp) EXCEPT !.meshes.mats[index + 1] = path])

\* setModelInstanceMaterial: nothing to do when the mesh has the material
\* already; else the object gets its private meshes and the material.
setModelInstanceMaterial(S, cmp, index, path) ==
    LET r == Inst(S, cmp)
        same == /\ r.meshes.ptr # "nullptr"
                /\ r.mesh_count > index
                /\ MaterialAt(r.meshes, index) # NoMaterial
                /\ path = MaterialAt(r.meshes, index)
        new_count == IF index + 1 > r.mesh_count THEN index + 1 ELSE r.mesh_count
        S1 == allocateCustomMeshes(S, cmp, new_count)
        r1 == Inst(S1, cmp)
    IN  IF same THEN S
        ELSE SetInst(S1, cmp, [r1 EXCEPT !.meshes.mats[index + 1] = path])

\* getModelInstanceComponent: the handle of the entity's object is the
\* entity's index, if the table has a live slot there.
getModelInstanceComponent(S, entity) ==
    IF entity >= Size(S) THEN INVALID_COMPONENT
    ELSE IF ~isValid(Inst(S, entity).entity) THEN INVALID_COMPONENT
    ELSE entity

\* createModelInstance that takes the next slot of the table, whatever the
\* entity's index.
createModelInstance_nextSlot(S, entity) ==
    [S EXCEPT !.m_model_instances =
        Append(@, [entity |-> entity, model |-> NoModel, pose |-> FALSE,
                   matrix |-> S.position[entity],
                   meshes |-> NullMeshes, mesh_count |-> 0, custom_meshes |-> FALSE])]

\* createModelInstance: the table grows up to the entity's index, the gaps
\* filled with dead slots.
createModelInstance(S, entity) ==
    LET grown == [k \in 1 .. (IF entity >= Size(S) THEN entity + 1 ELSE Size(S)) |->
                     IF k <= Size(S) THEN S.m_model_instances[k] ELSE EmptyInstance]
        r == [entity |-> entity, model |-> NoModel, pose |-> FALSE,
              matrix |-> S.position[entity],
              meshes |-> NullMeshes, mesh_count |-> 0, custom_meshes |-> FALSE]
    IN  [S EXCEPT !.m_model_instances = [grown EXCEPT ![entity + 1] = r]]

\* destroyModelInstance
destroyModelInstance(S, component) ==
    LET S1 == [S EXCEPT !.m_light_influenced_geometry =
                  [i \in 1 .. Len(@) |-> eraseFirst(@[i], component)]]
        S2 == setModel(S1, component, NoModel)
        model_instance == Inst(S2, component)
    IN  SetInst(S2, component,
                [model_instance EXCEPT !.pose = FALSE, !.entity = INVALID_ENTITY])

\* showModelInstance that does not ask the culling system whether the handle
\* is there.
showModelInstance_unasked(S, cmp) ==
    LET model_instance == Inst(S, cmp)
        sphere == Sphere(S.position[model_instance.entity], BoundingRadius(model_instance.model))
    IN  IF ~isReady(S, model_instance.model) THEN S
        ELSE addStatic(S, cmp, sphere, getLayerMask(S, model_instance))

\* showModelInstance
showModelInstance(S, cmp) ==
    LET model_instance == Inst(S, cmp)
        sphere == Sphere(S.position[model_instance.entity], BoundingRadius(model_instance.model))
        layer_mask == getLayerMask(S, model_instance)
    IN  IF ~isReady(S, model_instance.model) THEN S
        ELSE IF ~isAdded(S, cmp) THEN addStatic(S, cmp, sphere, layer_mask) ELSE S

\* hideModelInstance
hideModelInstance(S, cmp) == removeStatic(S, cmp)

\* clear: the callbacks, the object table and the index are emptied; every
\* live object gives back its reference on its model.
clear(S) ==
    [S EXCEPT !.m_model_loaded_callbacks = <<>>,
              !.m_model_instances = <<>>,
              !.m_culling_system = <<>>,
              !.ref_count = [model \in Models |->
                                @[model] - Cardinality(Referencing(S, model))]]

\* cull: no query at all on an empty object table.
cull(S, frustum, layer_mask) ==
    IF Size(S) = 0 THEN <<>> ELSE cullToFrustum(S, frustum, layer_mask)

\* ------------------------------------------------------------ entity moved
\* The light loop of onEntityMoved for the light at array index light_idx: the
\* handle leaves the list (first occurrence, eraseFast) and is pushed back when
\* the frustum of getPointLightFrustum({light_idx}) holds the sphere
\* {position, unscaled bounding radius}.  The frustum is looked up with the
\* array index used as a component id; when no light has that id the lookup
\* m_point_lights_map[cmp] has no defined result, and garbage[light_idx] stands
\* for whatever the test then answers.
movedLight(S, r, cmp, light_idx, garbage) ==
    LET bounding_radius == IF r.model # NoModel THEN BoundingRadius(r.model) ELSE 1
        list == S.m_light_influenced_geometry[light_idx + 1]
        erased == IF indexOf(list, cmp) = 0 THEN list ELSE eraseFast(list, indexOf(list, cmp))
        pos == S.position[r.entity]
        inside == IF light_idx \in DOMAIN S.m_point_lights_map
                  THEN isSphereInside(getPointLightFrustum(S, light_idx), pos, bounding_radius)
                  ELSE garbage[light_idx]
    IN  [S EXCEPT !.m_light_influenced_geometry[light_idx + 1] =
            IF inside THEN Append(erased, cmp) ELSE erased]

RECURSIVE movedLightsFrom(_, _, _, _, _)
movedLightsFrom(S, r, cmp, light_idx, garbage) ==
    IF light_idx >= NumLights(S) THEN S
    ELSE movedLightsFrom(movedLight(S, r, cmp, light_idx, garbage), r, cmp, light_idx + 1, garbage)

\* The first light owned by the entity, 0 when there is none.
firstLightOf(S, entity) ==
    IF \E i \in 1 .. NumLights(S) : S.m_point_lights[i].m_entity = entity
    THEN CHOOSE i \in 1 .. NumLights(S) :
            /\ S.m_point_lights[i].m_entity = entity
            /\ \A j \in 1 .. (i - 1) : S.m_point_lights[j].m_entity # entity
    ELSE 0

\* onEntityMoved: for a live object with a ready model the matrix and the
\* index sphere are refreshed and the object is re-tested against every light;
\* then the list of a light owned by the entity is recomputed.
onEntityMoved(S, entity, garbage) ==
    LET index == entity
        cmp == index
        live == /\ index < Size(S)
                /\ isValid(Inst(S, index).entity)
                /\ isReady(S, Inst(S, index).model)
        r == [Inst(S, index) EXCEPT !.matrix = S.position[entity]]
        radius == S.scale[entity] * BoundingRadius(r.model)
        S1 == SetInst(S, index, r)
        S2 == updateBoundingSphere(S1, Sphere(S.position[entity], radius), cmp)
        S3 == movedLightsFrom(S2, r, cmp, 0, garbage)
        S4 == IF live THEN S3 ELSE S
        i == firstLightOf(S4, entity)
    IN  IF i = 0 THEN S4
        ELSE detectLightInfluencedGeometry(S4, S4.m_point_lights[i].m_component)

\* onEntityDestroyed: a bone attachment loses its parent; objects and lights
\* are left as they are.
onEntityDestroyed(S, entity) == S

\* modelStateChanged bound once per referencing object instead of once per
\* model: a ready transition runs modelLoaded(Model*) m_ref_count times.
RECURSIVE modelLoadedTimes(_, _, _)
modelLoadedTimes(S, model, n) ==
    IF n <= 0 THEN S ELSE modelLoadedTimes(modelLoadedAll(S, model), model, n - 1)

modelStateChanged_boundPerObject(S, model, new_ready) ==
    LET S1 == [S EXCEPT !.model_ready[model] = new_ready]
    IN  IF model \notin DOMAIN S.m_model_loaded_callbacks THEN S1
        ELSE IF new_ready
             THEN modelLoadedTimes(S1, model, S.m_model_loaded_callbacks[model])
             ELSE modelUnloadedAll(S1, model)

\* modelStateChanged: bound only while the model has a callback entry.
modelStateChanged(S, model, new_ready) ==
    LET S1 == [S EXCEPT !.model_ready[model] = new_ready]
    IN  IF model \notin DOMAIN S.m_model_loaded_callbacks THEN S1
        ELSE IF new_ready THEN modelLoadedAll(S1, model)
        ELSE modelUnloadedAll(S1, model)

\* ------------------------------------------------- influenced geometry query
\* What a call can come to: it returns its records, or it does not return.
Returned(infos) == [returned |-> TRUE, infos |-> infos]
Crashed == [returned |-> FALSE, infos |-> <<>>]

\* Model::getBoneCount: the bones of a model are part of its loaded data; a
\* model that is not ready has none.
getBoneCount(S, model) == IF isReady(S, model) THEN BoneCount(model) ELSE 0

\* Model::getMeshCount: the mesh count of a ready model; what a model that is
\* not ready answers is not fixed here.
getMeshCount(S, model) == IF isReady(S, model) THEN {MeshCount(model)} ELSE {0, MeshCount(model)}

\* The inner loop: one record per mesh of the object's model.
influencedMeshes(S, h, count) ==
    [k \in 1 .. count |->
        [mesh |-> [ptr |-> "model", of |-> Inst(S, h).model, index |-> k - 1],
         model_instance |-> h]]

\* model_instance.model->getMeshCount() and the records of one list entry.
\* A handle past the object table and an object without model are accesses
\* through an invalid reference.
influencedOfHandle(S, h) ==
    IF h >= Size(S) \/ Inst(S, h).model = NoModel THEN {Crashed}
    ELSE {Returned(influencedMeshes(S, h, count)) : count \in getMeshCount(S, Inst(S, h).model)}

\* One list entry of the overload with a frustum: the sphere of the handle is
\* fetched from the culling system and tested first.  For a handle the
\* culling system does not hold, the sphere is whatever the lookup yields.
influencedOfHandleInFrustum(S, h, frustum) ==
    LET inside == IF isAdded(S, h)
                  THEN {isSphereInside(frustum, getSphere(S, h).position, getSphere(S, h).radius)}
                  ELSE BOOLEAN
        fetched == IF isAdded(S, h) THEN {} ELSE {Crashed}
    IN  fetched \cup UNION {IF in THEN influencedOfHandle(S, h) ELSE {Returned(<<>>)} :
                              in \in inside}

RECURSIVE influencedFrom(_, _, _, _, _, _)
influencedFrom(S, geoms, j, infos, with_frustum, frustum) ==
    IF j > Len(geoms) THEN {Returned(infos)}
    ELSE UNION {IF one.returned
                THEN influencedFrom(S, geoms, j + 1, infos \o one.infos, with_frustum, frustum)
                ELSE {Crashed} :
                  one \in IF with_frustum
                          THEN influencedOfHandleInFrustum(S, geoms[j], frustum)
                          ELSE influencedOfHandle(S, geoms[j])}

\* getPointLightInfluencedGeometry(light_cmp, infos): the records of every
\* handle of the light's list, in list order.
getPointLightInfluencedGeometry(S, light_cmp) ==
    LET light_index == S.m_point_lights_map[light_cmp]
    IN  influencedFrom(S, S.m_light_influenced_geometry[light_index + 1], 1, <<>>, FALSE,
                       [lo |-> 0, hi |-> 0])

\* getPointLightInfluencedGeometry(light_cmp, frustum, infos): the records of
\* the handles of the light's list whose sphere reaches into the frustum.
getPointLightInfluencedGeometryInFrustum(S, light_cmp, frustum) ==
    LET light_index == S.m_point_lights_map[light_cmp]
    IN  influencedFrom(S, S.m_light_influenced_geometry[light_index + 1], 1, <<>>, TRUE,
                       frustum)

\* -------------------------------------------------------------- serialization
\* serializeModelInstances: every slot in order.  A dead slot is saved as its
\* entity alone; a live one with the path of its model (0 without model; a
\* path and the hash that is written stand for the model they name) and, if
\* the model is ready and the object does not point at the model's own meshes,
\* the material of every mesh.
serializeModelInstances(S) ==
    [k \in 1 .. Size(S) |->
        LET r == S.m_model_instances[k]
            has_changed_materials ==
                /\ isReady(S, r.model)
                /\ r.meshes # ModelMeshes(r.model)
        IN  IF r.entity = INVALID_ENTITY
            THEN [entity |-> INVALID_ENTITY, path |-> NoModel, materials |-> <<>>]
            ELSE [entity |-> r.entity,
                  path |-> r.model,
                  materials |-> IF has_changed_materials
                                THEN [i \in 1 .. r.mesh_count |-> MaterialAt(r.meshes, i - 1)]
                                ELSE <<>>]]

\* A scene that holds nothing, in the universe and with the resources of S;
\* the models are as ready as ready tells.
EmptyScene(S, ready) ==
    [S EXCEPT !.model_ready = ready,
              !.m_model_instances = <<>>,
              !.m_culling_system = <<>>,
              !.m_point_lights = <<>>,
              !.m_light_influenced_geometry = <<>>,
              !.m_point_lights_map = <<>>,
              !.m_point_light_last_cmp = INVALID_COMPONENT,
              !.m_model_loaded_callbacks = <<>>,
              !.ref_count = [model \in Models |-> 0]]

\* ------------------------------------------------------------ deserialization
\* The materials part of deserializeModelInstance(s): the object gets private
\* meshes for the saved materials, set one by one.
RECURSIVE deserializeMaterialsFrom(_, _, _, _)
deserializeMaterialsFrom(S, cmp, materials, j) ==
    IF j >= Len(materials) THEN S
    ELSE deserializeMaterialsFrom(setModelInstanceMaterial(S, cmp, j, materials[j + 1]),
                                  cmp, materials, j + 1)

\* One saved object: the slot is emplaced with the saved entity; a live one
\* gets its matrix, its model by setModel after the load of the saved path,
\* and its saved materials.
deserializeModelInstanceEntry(S, saved) ==
    LET r == [EmptyInstance EXCEPT !.entity = saved.entity]
        cmp == Len(S.m_model_instances)
        S1 == [S EXCEPT !.m_model_instances = Append(@, r)]
        S2 == SetInst(S1, cmp, [r EXCEPT !.matrix = S.position[saved.entity]])
        S3 == IF saved.path # NoModel THEN setModel(load(S2, saved.path), cmp, saved.path)
              ELSE S2
        S4 == IF Len(saved.materials) > 0
              THEN deserializeMaterialsFrom(
                       allocateCustomMeshes(S3, cmp, Len(saved.materials)),
                       cmp, saved.materials, 0)
              ELSE S3
    IN  IF saved.entity = INVALID_ENTITY THEN S1 ELSE S4

RECURSIVE deserializeModelInstancesFrom(_, _, _)
deserializeModelInstancesFrom(S, objects, i) ==
    IF i > Len(objects) THEN S
    ELSE deserializeModelInstancesFrom(deserializeModelInstanceEntry(S, objects[i]),
                                       objects, i + 1)

\* deserializeModelInstances: the saved slots in order.
deserializeModelInstances(S, objects) == deserializeModelInstancesFrom(S, objects, 1)

\* deserializeLights: m_point_lights becomes the saved lights, every light
\* gets an empty influence list and its entry in m_point_lights_map, and
\* m_point_light_last_cmp is the saved one.
deserializeLights(S, lights, last_cmp) ==
    [S EXCEPT !.m_point_lights = lights,
              !.m_light_influenced_geometry = @ \o [i \in 1 .. Len(lights) |-> <<>>],
              !.m_point_lights_map =
                  [c \in {lights[i].m_component : i \in 1 .. Len(lights)} |->
                      (CHOOSE i \in 1 .. Len(lights) : lights[i].m_component = c) - 1] @@ @,
              !.m_point_light_last_cmp = last_cmp]

\* deserialize: the objects, then the lights.
deserialize(S, blob) ==
    deserializeLights(deserializeModelInstances(S, blob.objects), blob.lights, blob.last_cmp)

\* deserializePointLight: the saved light is emplaced with an empty influence
\* list and entered in m_point_lights_map under its saved component id.
deserializePointLight(S, entity, saved) ==
    [S EXCEPT !.m_light_influenced_geometry = Append(@, <<>>),
              !.m_point_lights = Append(@, [saved EXCEPT !.m_entity = entity]),
              !.m_point_lights_map = (saved.m_component :> Len(S.m_point_lights)) @@ @]

\* ------------------------------------------------- visibility job pipeline
\* Math::degreesToRadians(60.0f); the model keeps angles in degrees.
ReferenceFov == 60

\* No query is running.
NoFrame == [frustum |-> [lo |-> 0, hi |-> 0, fov |-> 0], lod_ref_point |-> 0]

\* Model::getLODMeshIndices: model 1 has one LOD with one mesh; model 2 shows
\* its meshes 0 and 1 below the squared distance 200 and its mesh 2 from there on.
getLODMeshIndices(model, squared_distance) ==
    IF model = 1 THEN [from |-> 0, to |-> 0]
    ELSE IF squared_distance < 200 THEN [from |-> 0, to |-> 1]
    ELSE [from |-> 2, to |-> 2]

\* CullingSystem::getResult: the handles that passed the test, in nb buckets;
\* where the first bucket ends is the culling system's choice.
bucketed(hit, nb, cut) ==
    IF nb = 1 THEN <<hit>> ELSE <<SubSeq(hit, 1, cut), SubSeq(hit, cut + 1, Len(hit))>>

\* The field-of-view correction applied whatever the fov is.
lodMultiplier_anyFov(multiplier, frustum) ==
    multiplier * (frustum.fov \div ReferenceFov) * (frustum.fov \div ReferenceFov)

\* The job's lod_multiplier: m_lod_multiplier, corrected by the field of view
\* of a perspective frustum.
lodMultiplier(multiplier, frustum) ==
    IF frustum.fov > 0
    THEN multiplier * (frustum.fov \div ReferenceFov) * (frustum.fov \div ReferenceFov)
    ELSE multiplier

\* The squared distance a job hands to getLODMeshIndices for a handle.
squaredDistance(S, multiplier, fr, h) ==
    LET d == Inst(S, h).matrix - fr.lod_ref_point
    IN  (d * d) * lodMultiplier(multiplier, fr.frustum)

\* &model_instance->meshes[j]: the array the object points at, and the index.
meshAddress(S, h, j) ==
    LET model_instance == Inst(S, h)
    IN  [ptr |-> model_instance.meshes.ptr,
         of |-> IF model_instance.meshes.ptr = "custom" THEN h ELSE model_instance.meshes.of,
         index |-> j]

\* The job's records, pointing at the meshes of the model instead of the
\* object's own.
jobRecords_modelMeshes(S, multiplier, fr, h) ==
    LET model_instance == Inst(S, h)
        lod == getLODMeshIndices(model_instance.model, squaredDistance(S, multiplier, fr, h))
    IN  [k \in 1 .. (lod.to - lod.from + 1) |->
            [model_instance |-> h,
             mesh |-> [ptr |-> "model", of |-> model_instance.model,
                       index |-> lod.from + k - 1]]]

\* The records a job emplaces for one handle: one per mesh of the LOD range.
jobRecords(S, multiplier, fr, h) ==
    LET model_instance == Inst(S, h)
        lod == getLODMeshIndices(model_instance.model, squaredDistance(S, multiplier, fr, h))
    IN  [k \in 1 .. (lod.to - lod.from + 1) |->
            [model_instance |-> h, mesh |-> meshAddress(S, h, lod.from + k - 1)]]

\* Every job writes to the first list.
subinfos_shared(job) == 1

\* The list a job captured as subinfos: m_temporary_infos[subresult_index].
subinfos(job) == job.bucket

\* A job for every bucket, the empty ones too.
makeJobs_everyBucket(res) ==
    [k \in 1 .. Len(res) |-> [bucket |-> k, state |-> "made", next |-> 0]]

\* fillTemporaryInfos up to runJobs: one job per non-empty bucket, none of them
\* scheduled yet.
makeJobs(res) ==
    LET nonempty == SelectSeq([i \in 1 .. Len(res) |-> i], LAMBDA i : res[i] # <<>>)
    IN  [k \in 1 .. Len(nonempty) |-> [bucket |-> nonempty[k], state |-> "made", next |-> 0]]

\* The schedule loop of runJobs that stops one job short.
scheduledAll_butLast(jobs, k) == k >= Len(jobs) - 1

\* runJobs has scheduled every job once the k-th, the last of m_jobs, is
\* scheduled.
scheduledAll(jobs, k) == k = Len(jobs)

\* m_sync_point.sync() returns: every job that depends on the group is done.
syncReturns(jobs) == \A k \in 1 .. Len(jobs) : jobs[k].state = "done"

\* runJobs without the sync: it returns as soon as the jobs are scheduled.
runJobsReturns_noSync(jobs) == TRUE

\* runJobs returns to fillTemporaryInfos: after the sync, which is skipped
\* when there is no job.
runJobsReturns(jobs) == IF jobs # <<>> THEN syncReturns(jobs) ELSE TRUE

\* ----------------------------------------------------------------- actions
Garbage == [0 .. (MaxLights - 1) -> BOOLEAN]

\* The slot of the entity is free for a new renderable component.
SlotFree(entity) ==
    IF entity >= Len(m_model_instances) THEN TRUE
    ELSE ~isValid(m_model_instances[entity + 1].entity)

SlotLive(cmp) ==
    IF cmp >= Len(m_model_instances) THEN FALSE
    ELSE isValid(m_model_instances[cmp + 1].entity)

\* The light loop of onEntityMoved reads m_point_lights_map[light_idx] although
\* no light has the component id light_idx.
LookupUndefined(entity, light_idx) ==
    /\ SlotLive(entity)
    /\ isReady(Scene, m_model_instances[entity + 1].model)
    /\ light_idx < Len(m_point_lights)
    /\ light_idx \notin DOMAIN m_point_lights_map

CreateModelInstance ==
    \E entity \in Entities :
        /\ SlotFree(entity)
        /\ Commit(createModelInstance(Scene, entity))

SetModelInstancePath ==
    \E cmp \in Entities, path \in ModelRefs :
        /\ SlotLive(cmp)
        /\ Commit(setModelInstancePath(Scene, cmp, path))

\* destroy is also taken on a slot that is already dead.
DestroyModelInstance ==
    \E cmp \in Entities :
        /\ cmp < Len(m_model_instances)
        /\ Commit(destroyModelInstance(Scene, cmp))

\* The asset system moves a model into the ready state.
ModelBecomesReady ==
    \E model \in Models :
        /\ ~model_ready[model]
        /\ Commit(modelStateChanged(Scene, model, TRUE))

\* The asset system unloads a ready model.
ModelLeavesReady ==
    \E model \in Models :
        /\ model_ready[model]
        /\ Commit(modelStateChanged(Scene, model, FALSE))

\* The universe sets the transform of an entity (to a new or to the same
\* position and scale) and notifies the scene.
EntityMoved ==
    \E entity \in Entities, p \in Positions, s \in Scales, garbage \in Garbage :
        /\ \A i \in DOMAIN garbage : garbage[i] => LookupUndefined(entity, i)
        /\ Commit(onEntityMoved([Scene EXCEPT !.position[entity] = p, !.scale[entity] = s],
                                entity, garbage))

\* The universe destroys an entity and notifies the scene; the object of the
\* entity keeps its slot.
EntityDestroyed ==
    \E entity \in Entities :
        /\ pc = "idle"
        /\ entity \notin entity_destroyed
        /\ entity_destroyed' = entity_destroyed \cup {entity}
        /\ UNCHANGED hidden
        /\ position' = onEntityDestroyed(Scene, entity).position
        /\ scale' = onEntityDestroyed(Scene, entity).scale
        /\ model_ready' = onEntityDestroyed(Scene, entity).model_ready
        /\ m_model_instances' = onEntityDestroyed(Scene, entity).m_model_instances
        /\ m_culling_system' = onEntityDestroyed(Scene, entity).m_culling_system
        /\ m_point_lights' = onEntityDestroyed(Scene, entity).m_point_lights
        /\ m_light_influenced_geometry' =
               onEntityDestroyed(Scene, entity).m_light_influenced_geometry
        /\ m_point_lights_map' = onEntityDestroyed(Scene, entity).m_point_lights_map
        /\ m_point_light_last_cmp' = onEntityDestroyed(Scene, entity).m_point_light_last_cmp
        /\ m_model_loaded_callbacks' =
               onEntityDestroyed(Scene, entity).m_model_loaded_callbacks
        /\ ref_count' = onEntityDestroyed(Scene, entity).ref_count
        /\ log' = onEntityDestroyed(Scene, entity).log
        /\ UNCHANGED job_vars

ShowModelInstance ==
    \E cmp \in Entities :
        /\ SlotLive(cmp)
        /\ Commit(showModelInstance(Scene, cmp))

HideModelInstance ==
    \E cmp \in Entities :
        /\ SlotLive(cmp)
        /\ Commit(hideModelInstance(Scene, cmp))

\* The ranges setLightRange is called with.
LightRanges == {1, DefaultLightRange}

SetLightRange ==
    \E cmp \in DOMAIN m_point_lights_map, value \in LightRanges :
        /\ pc = "idle"
        /\ Commit(Emit(setLightRange(Scene, cmp, value), "setLightRange",
                       [light |-> cmp, value |-> value]))

\* hideModelInstance of an object that is in the culling system; the handle
\* is hidden from now on.
HideShownModelInstance ==
    \E cmp \in Entities :
        /\ SlotLive(cmp)
        /\ isAdded(Scene, cmp)
        /\ CommitHidden(hideModelInstance(Scene, cmp), hidden \cup {cmp})

\* showModelInstance; the handle is hidden no more.
ShowHiddenModelInstance ==
    \E cmp \in Entities :
        /\ SlotLive(cmp)
        /\ CommitHidden(showModelInstance(Scene, cmp), hidden \ {cmp})

\* setModelInstancePath of an object that is not hidden.
SetShownModelInstancePath ==
    \E cmp \in Entities \ hidden, path \in ModelRefs :
        /\ SlotLive(cmp)
        /\ Commit(setModelInstancePath(Scene, cmp, path))

\* hideModelInstance and, right after it, showModelInstance of the same handle.
HideShowModelInstance ==
    \E cmp \in Entities :
        /\ SlotLive(cmp)
        /\ Commit(Emit(Untraced(showModelInstance(hideModelInstance(Scene, cmp), cmp)),
                       "hideModelInstance; showModelInstance", cmp))

CreatePointLight ==
    \E entity \in Entities :
        /\ Len(m_point_lights) < MaxLights
        /\ m_point_light_last_cmp < MaxLightCmp
        /\ \A i \in 1 .. Len(m_point_lights) : m_point_lights[i].m_entity # entity
        /\ Commit(createPointLight(Scene, entity))

DestroyPointLight ==
    \E component \in DOMAIN m_point_lights_map :
        Commit(destroyPointLight(Scene, component))

Clear == Commit(clear(Scene))

\* One more light than MaxLights is created, next to lights that were restored.
CreatePointLightLoaded ==
    \E entity \in Entities :
        /\ Len(m_point_lights) < MaxLights + 1
        /\ m_point_light_last_cmp < MaxLightCmp
        /\ \A i \in 1 .. Len(m_point_lights) : m_point_lights[i].m_entity # entity
        /\ Commit(createPointLight(Scene, entity))

\* What a saved scene holds.  Slot i holds the object of entity i or a dead
\* slot; an object has the path of its model, or none, and the materials of
\* its overridden meshes, or none.
SavedObjects(i) ==
    {[entity |-> INVALID_ENTITY, path |-> NoModel, materials |-> <<>>]}
        \cup {[entity |-> i, path |-> path, materials |-> <<>>] : path \in ModelRefs}
        \cup {[entity |-> i, path |-> 1, materials |-> <<material>>] :
                 material \in OverrideMaterials}

SavedObjectTables ==
    UNION {[1 .. n -> UNION {SavedObjects(i) : i \in Entities}] : n \in 0 .. MaxEntities}

\* The lights of a saved scene have distinct component ids, none above the
\* saved m_point_light_last_cmp.
SavedLight(entity, component) ==
    [m_entity |-> entity, m_component |-> component, m_range |-> DefaultLightRange]

SavedLights == {<<>>} \cup {<<SavedLight(entity, 0)>> : entity \in Entities}

Blobs ==
    {blob \in [objects : SavedObjectTables, lights : SavedLights, last_cmp : -1 .. 0] :
        /\ \A i \in 1 .. Len(blob.objects) : blob.objects[i] \in SavedObjects(i - 1)
        /\ \A i \in 1 .. Len(blob.lights) : blob.lights[i].m_component <= blob.last_cmp}

\* A scene that holds nothing yet.
Fresh ==
    /\ m_model_instances = <<>>
    /\ m_point_lights = <<>>
    /\ m_light_influenced_geometry = <<>>

\* deserialize of a saved scene into a fresh one.
Deserialize ==
    \E blob \in Blobs :
        /\ Fresh
        /\ Commit(deserialize(Scene, blob))

\* deserializePointLight of a saved light whose id no light of the scene has.
DeserializePointLight ==
    \E entity \in Entities, component \in 0 .. MaxLightCmp :
        /\ Len(m_point_lights) < MaxLights
        /\ \A i \in 1 .. Len(m_point_lights) :
              /\ m_point_lights[i].m_entity # entity
              /\ m_point_lights[i].m_component # component
        /\ Commit(deserializePointLight(Scene, entity, SavedLight(entity, component)))

\* The objects of the scene are saved and restored into an empty scene.
SaveRestoreModelInstances ==
    \E ready \in [Models -> BOOLEAN] :
        /\ pc = "idle"
        /\ Commit(Emit(Untraced(deserializeModelInstances(EmptyScene(Scene, ready),
                                                          serializeModelInstances(Scene))),
                       "serializeModelInstances; deserializeModelInstances", 0))

\* The frusta of the queries for influenced geometry.
InfluenceFrusta == {[lo |-> p - 1, hi |-> p + 1] : p \in Positions} \cup {[lo |-> -100, hi |-> 100]}

\* The queries change nothing in the scene; the log holds the call and what it
\* came to.
GetPointLightInfluencedGeometry ==
    \E i \in 1 .. Len(m_point_lights) :
        LET light_cmp == m_point_lights[i].m_component
        IN  \E outcome \in getPointLightInfluencedGeometry(Scene, light_cmp) :
                /\ pc = "idle"
                /\ log' = <<[op |-> "getPointLightInfluencedGeometry",
                             arg |-> [light |-> light_cmp, outcome |-> outcome]]>>
                /\ UNCHANGED scene_vars
                /\ UNCHANGED job_vars

GetPointLightInfluencedGeometryInFrustum ==
    \E i \in 1 .. Len(m_point_lights), frustum \in InfluenceFrusta :
        LET light_cmp == m_point_lights[i].m_component
        IN  \E outcome \in getPointLightInfluencedGeometryInFrustum(Scene, light_cmp, frustum) :
                /\ pc = "idle"
                /\ log' = <<[op |-> "getPointLightInfluencedGeometry in frustum",
                             arg |-> [light |-> light_cmp, frustum |-> frustum,
                                      outcome |-> outcome]]>>
                /\ UNCHANGED scene_vars
                /\ UNCHANGED job_vars

\* Frusta and masks of the visibility queries.
JobFrusta ==
    {[lo |-> -100, hi |-> 100, fov |-> 0], [lo |-> -100, hi |-> 100, fov |-> 120],
     [lo |-> 12, hi |-> 14, fov |-> 60], [lo |-> -100, hi |-> 100, fov |-> -120]}
JobMasks == {{0}, {0, 40}}

SetModelInstanceMaterial ==
    \E cmp \in Entities, index \in OverrideIndices, path \in OverrideMaterials :
        /\ SlotLive(cmp)
        /\ m_model_instances[cmp + 1].model # NoModel
        /\ index < MeshCount(m_model_instances[cmp + 1].model)
        /\ Commit(setModelInstanceMaterial(Scene, cmp, index, path))

\* setModelInstanceMaterial with any of the mesh indices a caller may pass,
\* those the model has no mesh for included.
AnyMeshIndices == {0, 1}

SetModelInstanceMaterialAt ==
    \E cmp \in Entities, index \in AnyMeshIndices, path \in OverrideMaterials :
        /\ SlotLive(cmp)
        /\ m_model_instances[cmp + 1].model # NoModel
        /\ Commit(setModelInstanceMaterial(Scene, cmp, index, path))

\* setModelInstancePath is called with the path of the model the object has.
SetSameModelInstancePath ==
    \E cmp \in Entities :
        /\ SlotLive(cmp)
        /\ m_model_instances[cmp + 1].model # NoModel
        /\ Commit(Emit(setModelInstancePath(Scene, cmp, m_model_instances[cmp + 1].model),
                       "setModelInstancePath: same model", cmp))

SetGlobalLODMultiplier ==
    \E multiplier \in {1, 2} :
        /\ pc = "idle"
        /\ m_lod_multiplier' = multiplier
        /\ log' = <<>>
        /\ UNCHANGED scene_vars
        /\ UNCHANGED <<m_temporary_infos, m_jobs, cull_result, frame, lod_lookups, pc>>

\* getModelInstanceInfos up to the first schedule: the lists are cleared, the
\* index is queried, and, unless the object table is empty, fillTemporaryInfos
\* sizes the lists to the buckets and makes the jobs.  Without a job the call
\* returns in the same step.
GetModelInstanceInfos ==
    \E frustum \in JobFrusta, lod_ref_point \in Positions, layer_mask \in JobMasks,
       nb \in 1 .. 2, cut \in 0 .. MaxEntities :
        LET hit == cullToFrustum(Scene, frustum, layer_mask)
            res == bucketed(hit, nb, cut)
            jobs == makeJobs(res)
        IN  /\ pc = "idle"
            /\ cut <= Len(hit)
            /\ nb = 1 => cut = 0
            /\ IF Size(Scene) = 0
               THEN /\ m_temporary_infos' = [i \in 1 .. Len(m_temporary_infos) |-> <<>>]
                    /\ UNCHANGED <<m_jobs, cull_result, frame, pc>>
               ELSE /\ m_temporary_infos' = [i \in 1 .. Len(res) |-> <<>>]
                    /\ m_jobs' = jobs
                    /\ cull_result' = IF jobs = <<>> THEN <<>> ELSE res
                    /\ frame' = IF jobs = <<>> THEN NoFrame
                                ELSE [frustum |-> frustum, lod_ref_point |-> lod_ref_point]
                    /\ pc' = IF runJobsReturns(jobs) THEN "idle" ELSE "schedule"
            /\ lod_lookups' = {}
            /\ log' = <<[op |-> "getModelInstanceInfos", arg |-> Len(res)]>>
            /\ UNCHANGED scene_vars
            /\ UNCHANGED m_lod_multiplier

\* runJobs: the next job of m_jobs is handed to the scheduler; after the last
\* one the main thread waits in sync.
ScheduleJob ==
    \E k \in 1 .. Len(m_jobs) :
        /\ pc = "schedule"
        /\ m_jobs[k].state = "made"
        /\ \A j \in 1 .. (k - 1) : m_jobs[j].state # "made"
        /\ m_jobs' = [m_jobs EXCEPT ![k].state = "scheduled"]
        /\ pc' = IF scheduledAll(m_jobs, k) THEN "sync" ELSE "schedule"
        /\ log' = <<>>
        /\ UNCHANGED scene_vars
        /\ UNCHANGED <<m_lod_multiplier, m_temporary_infos, cull_result, frame, lod_lookups>>

\* A worker runs a scheduled job for the next handle of its bucket: the LOD is
\* looked up and the records are appended to the job's own list.
RunJob ==
    \E k \in 1 .. Len(m_jobs) :
        LET job == m_jobs[k]
            h == cull_result[job.bucket][job.next + 1]
            last == job.next + 1 = Len(cull_result[job.bucket])
        IN  /\ job.state = "scheduled"
            /\ m_temporary_infos' =
                   [m_temporary_infos EXCEPT ![subinfos(job)] =
                       @ \o jobRecords(Scene, m_lod_multiplier, frame, h)]
            /\ lod_lookups' = lod_lookups \cup
                   {[model_instance |-> h,
                     squared_distance |-> squaredDistance(Scene, m_lod_multiplier, frame, h)]}
            /\ m_jobs' = [m_jobs EXCEPT ![k].next = @ + 1,
                                        ![k].state = IF last THEN "done" ELSE "scheduled"]
            /\ log' = <<>>
            /\ UNCHANGED scene_vars
            /\ UNCHANGED <<m_lod_multiplier, cull_result, frame, pc>>

\* The sync is over and getModelInstanceInfos returns m_temporary_infos.
ReturnModelInstanceInfos ==
    /\ pc = "sync"
    /\ runJobsReturns(m_jobs)
    /\ pc' = "idle"
    /\ cull_result' = <<>>
    /\ frame' = NoFrame
    /\ lod_lookups' = {}
    /\ log' = <<>>
    /\ UNCHANGED scene_vars
    /\ UNCHANGED <<m_lod_multiplier, m_temporary_infos, m_jobs>>

\* The scene after construction, in a universe with the entities at positions.
InitAt(positions) ==
    /\ position = positions
    /\ scale = [entity \in Entities |-> 1]
    /\ entity_destroyed = {}
    /\ hidden = {}
    /\ model_ready = [model \in Models |-> FALSE]
    /\ m_model_instances = <<>>
    /\ m_culling_system = <<>>
    /\ m_point_lights = <<>>
    /\ m_light_influenced_geometry = <<>>
    /\ m_point_lights_map = <<>>
    /\ m_point_light_last_cmp = INVALID_COMPONENT
    /\ m_model_loaded_callbacks = <<>>
    /\ ref_count = [model \in Models |-> 0]
    /\ log = <<>>
    /\ m_lod_multiplier = 1
    /\ m_temporary_infos = <<>>
    /\ m_jobs = <<>>
    /\ cull_result = <<>>
    /\ frame = NoFrame
    /\ lod_lookups = {}
    /\ pc = "idle"

Init == InitAt([entity \in Entities |-> 0])

Next ==
    \/ CreateModelInstance
    \/ SetModelInstancePath
    \/ DestroyModelInstance
    \/ ModelBecomesReady
    \/ ModelLeavesReady
    \/ EntityMoved
    \/ ShowModelInstance
    \/ HideModelInstance
    \/ CreatePointLight
    \/ DestroyPointLight
    \/ Clear

Spec == Init /\ [][Next]_vars

\* The scene without show, hide and clear: objects and lights are created and
\* destroyed, models are assigned, loaded and unloaded, entities move.
NextCore ==
    \/ CreateModelInstance
    \/ SetModelInstancePath
    \/ DestroyModelInstance
    \/ ModelBecomesReady
    \/ ModelLeavesReady
    \/ EntityMoved
    \/ CreatePointLight
    \/ DestroyPointLight

SpecCore == Init /\ [][NextCore]_vars

\* The scene with its visibility queries: objects are created, assigned
\* models and materials and moved, models become ready, and the renderer asks
\* for the draw records; the jobs of a query run in any order.
NextJobs ==
    \/ CreateModelInstance
    \/ SetModelInstancePath
    \/ ModelBecomesReady
    \/ SetModelInstanceMaterial
    \/ SetGlobalLODMultiplier
    \/ Clear
    \/ GetModelInstanceInfos
    \/ ScheduleJob
    \/ RunJob
    \/ ReturnModelInstanceInfos

\* The scene with its assignments: objects get models, the same model again,
\* and materials, next to a light.
NextAssign ==
    \/ CreateModelInstance
    \/ SetModelInstancePath
    \/ SetSameModelInstancePath
    \/ SetModelInstanceMaterial
    \/ ModelBecomesReady
    \/ ModelLeavesReady
    \/ EntityMoved
    \/ CreatePointLight

SpecAssign == Init /\ [][NextAssign]_vars

\* A saved scene is loaded into a fresh one; the models it names are ready
\* before the load or become ready after it.
NextLoad ==
    \/ Deserialize
    \/ ModelBecomesReady
    \/ ModelLeavesReady

\* The entities of the universe a scene is loaded into stand anywhere.
InitLoad == \E positions \in [Entities -> Positions] : InitAt(positions)

SpecLoad == InitLoad /\ [][NextLoad]_vars

\* Objects get and lose models and move next to a light whose influenced
\* geometry is queried.
NextInfluence ==
    \/ CreateModelInstance
    \/ SetModelInstancePath
    \/ ModelBecomesReady
    \/ EntityMoved
    \/ CreatePointLight
    \/ GetPointLightInfluencedGeometry
    \/ GetPointLightInfluencedGeometryInFrustum

SpecInfluence == Init /\ [][NextInfluence]_vars

\* Entities of objects are destroyed in the universe while the objects keep
\* their slots; entity-moved notifications with the index of such an entity
\* keep coming.
NextOrphan ==
    \/ CreateModelInstance
    \/ SetModelInstancePath
    \/ DestroyModelInstance
    \/ ModelBecomesReady
    \/ EntityMoved
    \/ EntityDestroyed
    \/ CreatePointLight

SpecOrphan == Init /\ [][NextOrphan]_vars

\* Objects get models and materials, models come and go, objects are
\* destroyed, and the scene is saved and restored.
NextSave ==
    \/ CreateModelInstance
    \/ SetModelInstancePath
    \/ SetModelInstanceMaterial
    \/ DestroyModelInstance
    \/ ModelBecomesReady
    \/ ModelLeavesReady
    \/ SaveRestoreModelInstances

SpecSave == Init /\ [][NextSave]_vars

\* Objects with models are moved, hidden and shown.
NextShowHide ==
    \/ CreateModelInstance
    \/ SetModelInstancePath
    \/ ModelBecomesReady
    \/ EntityMoved
    \/ HideModelInstance
    \/ ShowModelInstance
    \/ HideShowModelInstance

SpecShowHide == Init /\ [][NextShowHide]_vars

\* Lights are created, and restored one by one, next to objects.
NextLights ==
    \/ CreatePointLightLoaded
    \/ DeserializePointLight
    \/ Deserialize
    \/ CreateModelInstance
    \/ SetModelInstancePath
    \/ ModelBecomesReady

SpecLights == Init /\ [][NextLights]_vars

\* Lights are created, restored by either deserialization and destroyed, next
\* to objects that get a model.
NextLightTable ==
    \/ CreatePointLightLoaded
    \/ DestroyPointLight
    \/ DeserializePointLight
    \/ Deserialize
    \/ CreateModelInstance
    \/ SetModelInstancePath
    \/ ModelBecomesReady

SpecLightTable == Init /\ [][NextLightTable]_vars

\* The entities of this universe stand apart, one at each position.
InitJobs == InitAt([entity \in Entities |-> 13 * entity])

SpecJobs == InitJobs /\ [][NextJobs]_vars

\* Two lights and the objects move.
NextLightMoved ==
    \/ CreateModelInstance
    \/ SetModelInstancePath
    \/ ModelBecomesReady
    \/ EntityMoved
    \/ CreatePointLightLoaded

SpecLightMoved == Init /\ [][NextLightMoved]_vars

\* Two lights whose ranges are set, next to objects that get a model; the
\* entities stand where the universe has put them.
NextLightRange ==
    \/ CreateModelInstance
    \/ SetModelInstancePath
    \/ ModelBecomesReady
    \/ CreatePointLightLoaded
    \/ SetLightRange

SpecLightRange == InitLoad /\ [][NextLightRange]_vars

\* Objects get materials at any mesh index while their models are loaded,
\* unloaded and replaced.
NextOverride ==
    \/ CreateModelInstance
    \/ SetModelInstancePath
    \/ SetModelInstanceMaterialAt
    \/ ModelBecomesReady
    \/ ModelLeavesReady

SpecOverride == Init /\ [][NextOverride]_vars

\* Objects are hidden and shown while they move and their models are
\* unloaded and loaded again.
NextHidden ==
    \/ CreateModelInstance
    \/ SetShownModelInstancePath
    \/ ModelBecomesReady
    \/ ModelLeavesReady
    \/ EntityMoved
    \/ HideShownModelInstance
    \/ ShowHiddenModelInstance

SpecHidden == Init /\ [][NextHidden]_vars

\* The scene with its visibility queries and with models that are unloaded
\* and loaded again between the queries.
NextJobsReload ==
    \/ CreateModelInstance
    \/ SetModelInstancePath
    \/ ModelBecomesReady
    \/ ModelLeavesReady
    \/ SetModelInstanceMaterial
    \/ SetGlobalLODMultiplier
    \/ Clear
    \/ GetModelInstanceInfos
    \/ ScheduleJob
    \/ RunJob
    \/ ReturnModelInstanceInfos

SpecJobsReload == InitJobs /\ [][NextJobsReload]_vars

\* The scene with its visibility queries where the main thread goes on in
\* runJobs, every scheduled job is run by a worker in the end, and the main
\* thread leaves the sync once it is over.
SpecJobsFair ==
    /\ SpecJobs
    /\ WF_vars(ScheduleJob)
    /\ WF_vars(RunJob)
    /\ WF_vars(ReturnModelInstanceInfos)

\* ------------------------------------------------------------ observations
\* The scene after the step, for properties of steps.
After ==
    [position |-> position', scale |-> scale', model_ready |-> model_ready',
     m_model_instances |-> m_model_instances',
     m_culling_system |-> m_culling_system',
     m_point_lights |-> m_point_lights',
     m_light_influenced_geometry |-> m_light_influenced_geometry',
     m_point_lights_map |-> m_point_lights_map',
     m_point_light_last_cmp |-> m_point_light_last_cmp',
     m_model_loaded_callbacks |-> m_model_loaded_callbacks',
     ref_count |-> ref_count',
     log |-> log']

\* The scene as it stands, with the log of the operation that led to it.
Now == [Scene EXCEPT !.log = log]

Handles(S) == 0 .. (Size(S) - 1)
Live(S, h) == IF h >= Size(S) THEN FALSE ELSE isValid(Inst(S, h).entity)
HasReadyModel(S, h) == Live(S, h) /\ isReady(S, Inst(S, h).model)

\* The bounding sphere of an object with a ready model: the entity's position,
\* the model's bounding radius times the entity's world scale.
BoundingSphere(S, h) ==
    Sphere(S.position[Inst(S, h).entity],
           BoundingRadius(Inst(S, h).model) * S.scale[Inst(S, h).entity])

Elements(arr) == {arr[k] : k \in 1 .. Len(arr)}
InfluenceList(S, i) == S.m_light_influenced_geometry[i]

\* The sphere {light position, light range} reaches the sphere.
LightReaches(S, i, sphere) ==
    LET light == S.m_point_lights[i]
        d == sphere.position - S.position[light.m_entity]
    IN  d * d <= (sphere.radius + light.m_range) * (sphere.radius + light.m_range)

\* Camera frusta of the queries: a narrow one around every position, and one
\* that holds everything.
Frusta == {[lo |-> p - 1, hi |-> p + 1] : p \in Positions} \cup {[lo |-> -100, hi |-> 100]}
QueryMasks == {{0}, {40}, {0, 40}, {7}}

\* The entry of a handle in the broad-phase index: its sphere and layer mask.
IndexEntry(S, h) ==
    LET k == CHOOSE k \in 1 .. Len(S.m_culling_system) : S.m_culling_system[k].cmp = h
    IN  [sphere |-> S.m_culling_system[k].sphere, layer_mask |-> S.m_culling_system[k].layer_mask]

\* The per-mesh material overrides of an object: mesh index and material.
Overrides(r) ==
    IF ~r.custom_meshes THEN {}
    ELSE {<<i, r.meshes.mats[i + 1]>> : i \in {j \in 0 .. (r.mesh_count - 1) :
                                                 r.meshes.mats[j + 1] \in OverrideMaterials}}

AddCalls(S, h) == Cardinality({k \in 1 .. Len(S.log) : S.log[k] = [op |-> "addStatic", arg |-> h]})
Failed(S, what) == \E k \in 1 .. Len(S.log) : S.log[k].op = what
Called(S, what) == \E k \in 1 .. Len(S.log) : S.log[k].op = what

\* ------------------------------------------------------------------ claims

\* C1: an object with a ready model is in the result of cull(frustum, mask)
\* exactly when its bounding sphere reaches into the frustum and its layer
\* mask shares a bit with the query mask.
C1_CullIffVisible ==
    \A h \in Handles(Scene), frustum \in Frusta, mask \in QueryMasks :
        HasReadyModel(Scene, h) =>
            (h \in Elements(cull(Scene, frustum, mask))
                <=> /\ isSphereInside(frustum, BoundingSphere(Scene, h).position,
                                      BoundingSphere(Scene, h).radius)
                    /\ getLayerMask(Scene, Inst(Scene, h)) \cap mask # {})

\* C2: for every light and every object with a ready model, the handle is in
\* the light's influence list exactly when the object's bounding sphere
\* reaches the sphere {light position, light range}.
C2_InfluenceIffIntersects ==
    \A i \in 1 .. Len(m_point_lights), h \in Handles(Scene) :
        HasReadyModel(Scene, h) =>
            (h \in Elements(InfluenceList(Scene, i))
                <=> LightReaches(Scene, i, BoundingSphere(Scene, h)))

\* C3: no influence list holds the same handle twice.
C3_NoDuplicateHandle ==
    \A i \in 1 .. Len(m_light_influenced_geometry), h \in Entities :
        Count(InfluenceList(Scene, i), h) <= 1

\* C4: no influence list holds the handle of a dead slot (invalid entity, or
\* no such slot in the object table).
C4_NoDeadHandle ==
    \A i \in 1 .. Len(m_light_influenced_geometry) :
        \A h \in Elements(InfluenceList(Scene, i)) : Live(Scene, h)

\* C5: destroyModelInstance on a slot that is already dead fails no assertion
\* and changes nothing.
C5_DestroyDeadStep(cmp) ==
    /\ cmp < Len(m_model_instances)
    /\ ~Live(Scene, cmp)
    /\ Commit(destroyModelInstance(Scene, cmp))

C5_SecondDestroyIsSilent ==
    [][\A cmp \in Entities :
          C5_DestroyDeadStep(cmp) =>
              /\ log' = <<>>
              /\ UNCHANGED <<m_model_instances, m_culling_system, m_point_lights,
                             m_light_influenced_geometry, m_point_lights_map>>]_vars

\* C6: after an entity-moved notification for a live object with a ready
\* model, the handle is in a light's list exactly when that light's sphere
\* reaches the object's new bounding sphere.
C6_MovedStep(entity) ==
    /\ <<position'[entity], scale'[entity]>> # <<position[entity], scale[entity]>>
    /\ HasReadyModel(After, entity)

C6_MovedObjectRelisted ==
    [][\A entity \in Entities :
          C6_MovedStep(entity) =>
              \A i \in 1 .. Len(m_point_lights') :
                  entity \in Elements(InfluenceList(After, i))
                      <=> LightReaches(After, i, BoundingSphere(After, entity))]_vars

\* C7: when a live object goes back to unassigned, by the null model or by
\* its model leaving the ready state, the handle is gone from the index and
\* from every influence list when the operation returns.
C7_UnassignedStep(h) ==
    /\ HasReadyModel(Scene, h)
    /\ Live(After, h)
    /\ \/ Inst(After, h).model = NoModel
       \/ Inst(After, h).model = Inst(Scene, h).model /\ ~isReady(After, Inst(After, h).model)

C7_UnassignedLeavesIndexAndLists ==
    [][\A h \in Entities :
          C7_UnassignedStep(h) =>
              /\ ~isAdded(After, h)
              /\ \A i \in 1 .. Len(m_light_influenced_geometry') :
                    h \notin Elements(InfluenceList(After, i))]_vars

\* C8: at a transition of a model into the ready state every live object that
\* references it is inserted into the index exactly once and pushed to each
\* light's list at most once; an object that is assigned a ready model is
\* inserted exactly once at the assignment; and no operation inserts a handle
\* that is in the index already.
C8_ReadyStep(model) == ~model_ready[model] /\ model_ready'[model]

C8_AssignedReadyStep(h) ==
    /\ Live(Scene, h)
    /\ Live(After, h)
    /\ Inst(After, h).model # Inst(Scene, h).model
    /\ UNCHANGED model_ready
    /\ isReady(After, Inst(After, h).model)

C8_LiveExactlyOnce ==
    [][/\ \A model \in Models :
             C8_ReadyStep(model) =>
                 \A h \in Referencing(Scene, model) :
                     /\ ~isAdded(Scene, h)
                     /\ isAdded(After, h)
                     /\ AddCalls(After, h) = 1
                     /\ \A i \in 1 .. Len(m_light_influenced_geometry') :
                           Count(InfluenceList(After, i), h) - Count(InfluenceList(Scene, i), h)
                               \in {0, 1}
       /\ \A h \in Entities :
             C8_AssignedReadyStep(h) => isAdded(After, h) /\ AddCalls(After, h) = 1
       /\ \A h \in Entities : AddCalls(After, h) <= 1
       /\ ~Failed(After, "ASSERT addStatic: already present")]_vars

\* A ready transition has just fanned out to two objects.
C8_Witness ==
    /\ Len(log) = 2
    /\ \A h \in {0, 1} : AddCalls(Now, h) = 1 /\ HasReadyModel(Now, h)
    /\ Inst(Scene, 0).model = Inst(Scene, 1).model

\* C9 as stated: a handle has an index entry exactly when its object has a
\* ready model.
C9_IndexIffReady ==
    \A h \in Entities : isAdded(Scene, h) <=> HasReadyModel(Scene, h)

\* C9 as amended: a handle has an index entry only if its object is live with
\* a ready model, and an object with a ready model is missing from the index
\* only by hideModelInstance: either the step is a hide of that handle, or the
\* object had the same ready model and was missing before the step already.
C9_HideStep(h) == Live(Scene, h) /\ Commit(hideModelInstance(Scene, h))

C9_IndexIffReadyUnlessHidden ==
    /\ [](\A h \in Entities : isAdded(Scene, h) => HasReadyModel(Scene, h))
    /\ [][\A h \in Entities :
             (HasReadyModel(After, h) /\ ~isAdded(After, h)) =>
                 \/ C9_HideStep(h)
                 \/ /\ HasReadyModel(Scene, h)
                    /\ Inst(Scene, h).model = Inst(After, h).model
                    /\ ~isAdded(Scene, h)]_vars

\* An object with a ready model sits outside the index, and another one inside.
C9_Witness ==
    /\ HasReadyModel(Scene, 0) /\ ~isAdded(Scene, 0)
    /\ HasReadyModel(Scene, 1) /\ isAdded(Scene, 1)

\* C10: the radius stored for an index entry is the model's bounding radius
\* times the current world scale of the owning entity.
C10_RadiusIsScaledBoundingRadius ==
    \A k \in 1 .. Len(m_culling_system) :
        LET e == m_culling_system[k]
        IN  HasReadyModel(Scene, e.cmp) =>
                e.sphere.radius = BoundingSphere(Scene, e.cmp).radius

\* The handles of the index whose sphere reaches into the volume of the light
\* at array position i.
IndexInRange(S, i) ==
    LET light == S.m_point_lights[i]
        frustum == [lo |-> S.position[light.m_entity] - light.m_range,
                    hi |-> S.position[light.m_entity] + light.m_range]
    IN  {S.m_culling_system[k].cmp : k \in
            {j \in 1 .. Len(S.m_culling_system) :
                isSphereInside(frustum, S.m_culling_system[j].sphere.position,
                               S.m_culling_system[j].sphere.radius)}}

\* C11: when a light is created, detectLightInfluencedGeometry leaves in its
\* list exactly the handles of the index whose sphere reaches into the light's
\* volume, whichever bits of their layer mask are set.
C11_CreatedLightStep ==
    /\ Len(m_point_lights') = Len(m_point_lights) + 1
    /\ Len(m_light_influenced_geometry') = Len(m_point_lights')

C11_RecomputeIsAllLayers ==
    [][C11_CreatedLightStep =>
          Elements(InfluenceList(After, Len(m_point_lights')))
              = IndexInRange(After, Len(m_point_lights'))]_vars

\* The mesh list of an object: its private copy when it has overrides, else
\* the list of its model; and the j-th mesh of that list.
ObjectMesh(S, h, j) ==
    IF Inst(S, h).custom_meshes
    THEN [ptr |-> "custom", of |-> h, index |-> j]
    ELSE [ptr |-> "model", of |-> Inst(S, h).model, index |-> j]

\* One record per mesh index of the LOD range selected for the handle.
RecordsOf(S, multiplier, fr, h) ==
    LET lod == getLODMeshIndices(Inst(S, h).model, squaredDistance(S, multiplier, fr, h))
        range == {j \in 0 .. 2 : lod.from <= j /\ j <= lod.to}
        upTo(j) == Cardinality({i \in range : i <= j})
    IN  [k \in 1 .. Cardinality(range) |->
            LET j == CHOOSE j \in range : upTo(j) = k
            IN  [model_instance |-> h, mesh |-> ObjectMesh(S, h, j)]]

RECURSIVE RecordsOfBucket(_, _, _, _)
RecordsOfBucket(S, multiplier, fr, bucket) ==
    IF bucket = <<>> THEN <<>>
    ELSE RecordsOf(S, multiplier, fr, Head(bucket))
             \o RecordsOfBucket(S, multiplier, fr, Tail(bucket))

\* C12: when getModelInstanceInfos returns, the i-th list is the concatenation,
\* in the order of bucket i, of one record (handle, object.meshes[j]) for every
\* j of the LOD range of the handle, and nothing else, whatever the order in
\* which the jobs ran; a call that schedules no job returns empty lists.
C12_RecordsAreBucketsExpanded ==
    [][/\ ReturnModelInstanceInfos =>
             m_temporary_infos' =
                 [i \in 1 .. Len(cull_result) |->
                     RecordsOfBucket(Scene, m_lod_multiplier, frame, cull_result[i])]
       /\ (Called(After, "getModelInstanceInfos") /\ pc' = "idle") =>
             \A i \in 1 .. Len(m_temporary_infos') : m_temporary_infos'[i] = <<>>]_vars

\* A query has returned a list with the records of two objects, one of them
\* with overridden meshes, one of them with a LOD of two meshes.
C12_Witness ==
    /\ pc = "idle"
    /\ \E i \in 1 .. Len(m_temporary_infos) :
          /\ Len(m_temporary_infos[i]) = 3
          /\ {m_temporary_infos[i][k].model_instance : k \in 1 .. 3} = {0, 1}
          /\ \E k \in 1 .. 3 : m_temporary_infos[i][k].mesh.ptr = "custom"

\* C13: once getModelInstanceInfos has returned, every job it scheduled is
\* done: no job is pending or running while the main thread is outside the call.
C13_ReturnsAfterAllJobs ==
    pc = "idle" => \A k \in 1 .. Len(m_jobs) : m_jobs[k].state = "done"

\* A query with two jobs has returned.
C13_Witness ==
    /\ pc = "idle"
    /\ Len(m_jobs) = 2
    /\ \A i \in 1 .. 2 : m_temporary_infos[i] # <<>>

\* Some job of the query is scheduled and not yet done.
JobsRunning(jobs) == \E k \in 1 .. Len(jobs) : jobs[k].state = "scheduled"

\* The jobs that took a step.
Stepped == {k \in 1 .. Len(m_jobs) : Len(m_jobs') = Len(m_jobs) /\ m_jobs'[k].next # m_jobs[k].next}

IsPrefix(a, b) == Len(a) <= Len(b) /\ SubSeq(b, 1, Len(a)) = a

\* C14: from the first schedule to the end of the last job, the object table,
\* the index and the influence lists do not change, the number of output lists
\* does not change, a list changes only by a job appending to the list of its
\* own bucket, and no two jobs have the same bucket.
C14_JobsWriteOwnListOnly ==
    [][(JobsRunning(m_jobs) \/ JobsRunning(m_jobs')) =>
          /\ UNCHANGED <<m_model_instances, m_culling_system, m_light_influenced_geometry>>
          /\ Len(m_temporary_infos') = Len(m_temporary_infos)
          /\ Len(m_temporary_infos) = Len(cull_result)
          /\ \A i \in 1 .. Len(m_temporary_infos) :
                m_temporary_infos'[i] # m_temporary_infos[i] =>
                    /\ IsPrefix(m_temporary_infos[i], m_temporary_infos'[i])
                    /\ \E k \in Stepped : Stepped = {k} /\ m_jobs[k].bucket = i
          /\ \A k1, k2 \in 1 .. Len(m_jobs) :
                m_jobs[k1].bucket = m_jobs[k2].bucket => k1 = k2
          /\ \A k \in 1 .. Len(m_jobs) : m_jobs[k].bucket <= Len(m_temporary_infos)]_vars

\* Two jobs of one query: the second has finished its list while the first is
\* still to run.
C14_Witness ==
    /\ Len(m_jobs) = 2
    /\ m_jobs[1].state = "scheduled"
    /\ m_jobs[2].state = "done"
    /\ m_temporary_infos[m_jobs[1].bucket] = <<>>
    /\ m_temporary_infos[m_jobs[2].bucket] # <<>>

\* C15: after destroyModelInstance on a live object the handle is in no
\* influence list and not in the index, the slot has no model and no pose, its
\* entity is INVALID_ENTITY, and the slots of the other objects are unchanged.
C15_DestroyLiveStep(h) ==
    /\ Live(Scene, h)
    /\ Commit(destroyModelInstance(Scene, h))

C15_DestroyDetachesAndReleases ==
    [][\A h \in Entities :
          C15_DestroyLiveStep(h) =>
              /\ \A i \in 1 .. Len(m_light_influenced_geometry') :
                    h \notin Elements(InfluenceList(After, i))
              /\ ~isAdded(After, h)
              /\ Inst(After, h).model = NoModel
              /\ ~Inst(After, h).pose
              /\ Inst(After, h).entity = INVALID_ENTITY
              /\ \A other \in Handles(Scene) \ {h} :
                    Inst(After, other) = Inst(Scene, other)]_vars


\* C16: setModel with the model the object already has, after the caller's
\* load, changes nothing: not the object's entry (meshes, overrides, pose,
\* matrix), not the index, not an influence list, not the callback reference
\* count, and the resource reference count is back where it was.  When
\* setModelInstancePath does this, nothing but the cached matrix, which
\* setModelInstancePath itself refreshes afterwards, can differ.
C16_SameModelStep(h) == log' = <<[op |-> "setModelInstancePath: same model", arg |-> h]>>

C16_SameModelIsNoOp ==
    /\ [](\A h \in Entities :
            (Live(Scene, h) /\ Inst(Scene, h).model # NoModel) =>
                Untraced(setModel(load(Scene, Inst(Scene, h).model), h, Inst(Scene, h).model))
                    = Scene)
    /\ [][\A h \in Entities :
             C16_SameModelStep(h) =>
                 /\ UNCHANGED <<m_culling_system, m_light_influenced_geometry,
                                m_model_loaded_callbacks, ref_count>>
                 /\ m_model_instances' =
                        [m_model_instances EXCEPT ![h + 1].matrix = position[Inst(Scene, h).entity]]]_vars

\* setModelInstancePath has just been called with the model the object has:
\* a ready, skinned model, overridden, shared with another object, the object
\* in the index and in the list of a light.
C16_Witness ==
    /\ log = <<[op |-> "setModelInstancePath: same model", arg |-> 0]>>
    /\ HasReadyModel(Scene, 0)
    /\ Inst(Scene, 0).pose
    /\ Inst(Scene, 0).custom_meshes
    /\ ref_count[Inst(Scene, 0).model] = 2
    /\ isAdded(Scene, 0)
    /\ Len(m_light_influenced_geometry) = 1
    /\ 0 \in Elements(InfluenceList(Scene, 1))

\* C17: once a saved scene is loaded and the models of its objects are ready,
\* every restored object with a ready model is in the index and every restored
\* light's list holds exactly the objects whose sphere reaches the light,
\* whether the models were ready at the load or became ready after it.
C17_Restored(S) ==
    /\ ~Fresh
    /\ \A h \in Handles(S) : (Live(S, h) /\ Inst(S, h).model # NoModel) => HasReadyModel(S, h)

C17_LoadRebuildsIndexAndLists ==
    C17_Restored(Scene) =>
        /\ \A h \in Handles(Scene) : HasReadyModel(Scene, h) => isAdded(Scene, h)
        /\ \A i \in 1 .. Len(m_point_lights) :
              Elements(InfluenceList(Scene, i))
                  = {h \in Handles(Scene) :
                        HasReadyModel(Scene, h)
                            /\ LightReaches(Scene, i, BoundingSphere(Scene, h))}

\* C18: createPointLight hands out an id above every id assigned before and
\* above the id of every light in the scene, restored lights included, and no
\* two lights of the scene ever have the same id.
C18_LightIds(S) == {S.m_point_lights[i].m_component : i \in 1 .. Len(S.m_point_lights)}

C18_CreatedStep ==
    \E entity \in Entities :
        /\ \A i \in 1 .. Len(m_point_lights) : m_point_lights[i].m_entity # entity
        /\ After = createPointLight(Scene, entity)

C18_LightIdsMonotoneAndUnique ==
    /\ [](\A i, j \in 1 .. Len(m_point_lights) :
            i # j => m_point_lights[i].m_component # m_point_lights[j].m_component)
    /\ [][C18_CreatedStep =>
            \A id \in C18_LightIds(Scene) \cup {m_point_light_last_cmp} :
                m_point_lights'[Len(m_point_lights')].m_component > id]_vars

\* C19: the squared distance a visibility job gives to the LOD lookup of an
\* object is the squared distance from the object's translation to the LOD
\* reference point, times the global LOD multiplier, and, only for a frustum
\* with fov > 0, times (fov / 60 degrees) squared.
C19_LodDistanceIsScaled ==
    \A lookup \in lod_lookups :
        LET d == Inst(Scene, lookup.model_instance).matrix - frame.lod_ref_point
            fov == frame.frustum.fov
        IN  IF fov > 0
            THEN lookup.squared_distance * (60 * 60) = (d * d) * m_lod_multiplier * (fov * fov)
            ELSE lookup.squared_distance = (d * d) * m_lod_multiplier

C19_Witness ==
    \E lookup \in lod_lookups :
        /\ frame.frustum.fov = 120
        /\ m_lod_multiplier = 2
        /\ lookup.squared_distance > 0

\* C20: the query for a light's influenced geometry returns records for
\* exactly the handles of the light's cached list; with a frustum, for exactly
\* those handles of the list whose broad-phase sphere reaches into the frustum.
C20_Handles(infos) == {infos[k].model_instance : k \in 1 .. Len(infos)}

C20_ListOf(light_cmp) == InfluenceList(Scene, m_point_lights_map[light_cmp] + 1)

C20_InfluencedIsListInFrustum ==
    \A k \in 1 .. Len(log) :
        /\ log[k].op = "getPointLightInfluencedGeometry" =>
              /\ log[k].arg.outcome.returned
              /\ C20_Handles(log[k].arg.outcome.infos) = Elements(C20_ListOf(log[k].arg.light))
        /\ log[k].op = "getPointLightInfluencedGeometry in frustum" =>
              /\ log[k].arg.outcome.returned
              /\ C20_Handles(log[k].arg.outcome.infos)
                    = {h \in Elements(C20_ListOf(log[k].arg.light)) :
                          /\ isAdded(Scene, h)
                          /\ isSphereInside(log[k].arg.frustum, getSphere(Scene, h).position,
                                            getSphere(Scene, h).radius)}

\* C21: hide takes an object out of the index and leaves its slot as it is;
\* hide followed by show, on an object with a ready model that is in the
\* index, gives the object the entry it had before (same sphere centre, same
\* radius, same layer mask) and leaves the object table as it is.
C21_HideStep(h) == Live(Scene, h) /\ Commit(hideModelInstance(Scene, h))

C21_HideShowStep(h) ==
    /\ log' = <<[op |-> "hideModelInstance; showModelInstance", arg |-> h]>>
    /\ HasReadyModel(Scene, h)
    /\ isAdded(Scene, h)

C21_HideShowRestoresEntry ==
    [][\A h \in Entities :
          /\ C21_HideStep(h) => ~isAdded(After, h) /\ m_model_instances' = m_model_instances
          /\ C21_HideShowStep(h) =>
                /\ isAdded(After, h)
                /\ IndexEntry(After, h) = IndexEntry(Scene, h)
                /\ m_model_instances' = m_model_instances]_vars

\* C22: when an object's model is replaced by a different model, the
\* materials the object had set for its meshes stay with it (in a mesh array
\* of the new model's mesh count once the new model is ready), and the pose
\* of the old model is freed.
C22_ReplacedStep(h) ==
    /\ Live(Scene, h)
    /\ Live(After, h)
    /\ Inst(Scene, h).model # NoModel
    /\ Inst(After, h).model # NoModel
    /\ Inst(After, h).model # Inst(Scene, h).model

C22_ReplaceKeepsOverridesFreesPose ==
    [][\A h \in Entities :
          C22_ReplacedStep(h) =>
              /\ \A o \in Overrides(Inst(Scene, h)) :
                    o[1] < MeshCount(Inst(After, h).model) => o \in Overrides(Inst(After, h))
              /\ isReady(After, Inst(After, h).model) /\ Inst(After, h).custom_meshes
                    => Inst(After, h).mesh_count = MeshCount(Inst(After, h).model)
              /\ Inst(After, h).pose
                    => /\ isReady(After, Inst(After, h).model)
                       /\ BoneCount(Inst(After, h).model) > 0]_vars

\* C23: after an entity-moved notification, and after an assignment of a
\* model, the cached matrix of the live object of the entity is the entity's
\* current transform, whether the object's model is ready or not.
C23_MovedStep(entity) == position'[entity] # position[entity]

C23_AssignedStep(h) == Live(Scene, h) /\ Inst(After, h).model # Inst(Scene, h).model

C23_MatrixIsCurrentTransform ==
    [][\A h \in Entities :
          (C23_MovedStep(h) \/ C23_AssignedStep(h)) /\ Live(After, h)
              => Inst(After, h).matrix = position'[Inst(After, h).entity]]_vars

\* C24: once the entity of an object was destroyed while the object keeps its
\* slot, an entity-moved notification with that entity's index changes
\* neither the index, nor an influence list, nor the object's matrix; the
\* destroy of the handle still takes it out of the index and of every list.
C24_Orphaned(h) == Live(Scene, h) /\ Inst(Scene, h).entity \in entity_destroyed

C24_MovedStep(entity) ==
    <<position'[entity], scale'[entity]>> # <<position[entity], scale[entity]>>

C24_DestroyStep(h) == Live(Scene, h) /\ ~Live(After, h)

C24_OrphanSkippedByMoves ==
    [][\A h \in Entities :
          C24_Orphaned(h) =>
              /\ C24_MovedStep(Inst(Scene, h).entity) =>
                    /\ m_culling_system' = m_culling_system
                    /\ m_light_influenced_geometry' = m_light_influenced_geometry
                    /\ Inst(After, h).matrix = Inst(Scene, h).matrix
              /\ C24_DestroyStep(h) =>
                    /\ ~isAdded(After, h)
                    /\ \A i \in 1 .. Len(m_light_influenced_geometry') :
                          h \notin Elements(InfluenceList(After, i))]_vars

\* C25: a query for the draw records while the index holds no object (the
\* object table is empty or holds only objects without a ready model) returns
\* at once, with no record in any list, no job made or scheduled and no wait
\* at the sync point.
C25_EmptyQueryStep == m_culling_system = <<>> /\ Called(After, "getModelInstanceInfos")

C25_EmptyIndexNoJobNoWait ==
    [][C25_EmptyQueryStep =>
          /\ pc' = "idle"
          /\ \A i \in 1 .. Len(m_temporary_infos') : m_temporary_infos'[i] = <<>>
          /\ \A k \in 1 .. Len(m_jobs') : m_jobs'[k].state = "done"]_vars

C25_Witness ==
    /\ Called(Now, "getModelInstanceInfos")
    /\ m_culling_system = <<>>
    /\ \E h \in Handles(Scene) : Live(Scene, h) /\ Inst(Scene, h).model # NoModel
    /\ pc = "idle"

\* C26: saving the objects and restoring them into an empty scene keeps the
\* set of live handles, and every live object keeps its entity, the path of
\* its model and its per-mesh material overrides, whether its model was ready
\* at the save or not.
C26_SaveRestoreStep ==
    log' = <<[op |-> "serializeModelInstances; deserializeModelInstances", arg |-> 0]>>

C26_SaveRestoreKeepsObjects ==
    [][C26_SaveRestoreStep =>
          /\ {h \in Handles(After) : Live(After, h)} = {h \in Handles(Scene) : Live(Scene, h)}
          /\ \A h \in Handles(Scene) :
                Live(Scene, h) =>
                    /\ Inst(After, h).entity = Inst(Scene, h).entity
                    /\ Inst(After, h).model = Inst(Scene, h).model
                    /\ Overrides(Inst(After, h)) = Overrides(Inst(Scene, h))]_vars

\* C27: createModelInstance gives the entity the handle that is the entity's
\* index: afterwards the table has a slot at that index, it is live, of that
\* entity and without model; the slots added below it are dead, without
\* model and pose; and every slot the table had before, but the created one,
\* is as it was.
C27_CreatedStep(entity) == ~Live(Scene, entity) /\ Live(After, entity)

C27_CreateFillsSlotOfEntity ==
    [][\A entity \in Entities :
          C27_CreatedStep(entity) =>
              /\ getModelInstanceComponent(After, entity) = entity
              /\ Size(After) > entity
              /\ Inst(After, entity).entity = entity
              /\ Inst(After, entity).model = NoModel
              /\ \A k \in Handles(After) \ (Handles(Scene) \cup {entity}) :
                    /\ Inst(After, k).entity = INVALID_ENTITY
                    /\ Inst(After, k).model = NoModel
                    /\ ~Inst(After, k).pose
              /\ \A k \in Handles(Scene) \ {entity} : Inst(After, k) = Inst(Scene, k)]_vars

C27_Witness ==
    /\ Size(Scene) = 2
    /\ ~Live(Scene, 0)
    /\ Live(Scene, 1)
    /\ Inst(Scene, 1).model = NoModel
    /\ ref_count = [model \in Models |-> 0]

\* C28: a getModelInstanceInfos call that was issued returns in the end, when
\* the workers run every scheduled job; and until then m_jobs keeps its jobs,
\* each one with its bucket, a scheduled job staying scheduled until it is
\* done, never going back in its bucket, and a done job staying done.
C28_JobKept(k) ==
    /\ Len(m_jobs') = Len(m_jobs)
    /\ m_jobs'[k].bucket = m_jobs[k].bucket
    /\ m_jobs'[k].next >= m_jobs[k].next
    /\ m_jobs[k].state = "scheduled" => m_jobs'[k].state \in {"scheduled", "done"}
    /\ m_jobs[k].state = "done" => m_jobs'[k] = m_jobs[k]

C28_CallRunsToCompletion ==
    /\ (pc # "idle") ~> (pc = "idle")
    /\ [][pc # "idle" => \A k \in 1 .. Len(m_jobs) : C28_JobKept(k)]_vars

\* A query has returned whose one job went through a bucket of two objects.
C28_Witness ==
    /\ pc = "idle"
    /\ Len(m_jobs) = 1
    /\ m_jobs[1].state = "done"
    /\ m_jobs[1].next = 2

\* C29: every handle in a light's influence list is the handle of an object
\* with a ready model and with an entry in the culling system, so that
\* getPointLightInfluencedGeometry reads no null model and no sphere of an
\* absent handle.
C29_ListedHaveModelAndEntry ==
    \A i \in 1 .. Len(m_light_influenced_geometry) :
        \A h \in Elements(InfluenceList(Scene, i)) :
            HasReadyModel(Scene, h) /\ isAdded(Scene, h)

\* C30: the sphere of every entry of the culling system is centred at the
\* current position of the entity that owns the entry's object.
C30_SphereAtEntityPosition ==
    \A k \in 1 .. Len(m_culling_system) :
        LET entry == m_culling_system[k]
        IN  Live(Scene, entry.cmp) =>
                entry.sphere.position = position[Inst(Scene, entry.cmp).entity]

\* C31: m_point_lights, m_light_influenced_geometry and m_point_lights_map
\* correspond one to one: the arrays have the same length, the map has one
\* key per light and maps the component id of the light at index i to i; and
\* when a light is destroyed every light that is left has the properties and
\* the influence list it had.
C31_Correspondence ==
    /\ Len(m_light_influenced_geometry) = Len(m_point_lights)
    /\ Cardinality(DOMAIN m_point_lights_map) = Len(m_point_lights)
    /\ \A i \in 1 .. Len(m_point_lights) :
          /\ m_point_lights[i].m_component \in DOMAIN m_point_lights_map
          /\ m_point_lights_map[m_point_lights[i].m_component] = i - 1

C31_DestroyedStep == Len(m_point_lights') = Len(m_point_lights) - 1

C31_SurvivorsKept ==
    \A j \in 1 .. Len(m_point_lights') :
        \E i \in 1 .. Len(m_point_lights) :
            /\ m_point_lights[i] = m_point_lights'[j]
            /\ i <= Len(m_light_influenced_geometry)
            /\ j <= Len(m_light_influenced_geometry')
            /\ m_light_influenced_geometry[i] = m_light_influenced_geometry'[j]

C31_LightTablesCorrespond ==
    /\ []C31_Correspondence
    /\ [][C31_DestroyedStep => C31_SurvivorsKept]_vars

\* C32: no operation of the scene calls addStatic for a handle that the
\* culling system holds at the time of the call: the "already present"
\* assertion of addStatic fails in no step, and a handle that is added has
\* its entry when the operation is over.
C32_NeverAddsPresentHandle ==
    [][/\ ~Failed(After, "ASSERT addStatic: already present")
       /\ \A h \in Entities : AddCalls(After, h) > 0 => isAdded(After, h)]_vars

\* Handle 0 has just been added to a culling system that held handle 1, of
\* an object with the same model.
C32_Witness ==
    /\ log = <<[op |-> "addStatic", arg |-> 0]>>
    /\ Len(m_culling_system) = 2
    /\ m_culling_system[1].cmp = 1
    /\ m_culling_system[2].cmp = 0
    /\ Inst(Scene, 0).model = Inst(Scene, 1).model

\* C33: a model has a callback in m_model_loaded_callbacks exactly when some
\* live object has the model, and the callback's m_ref_count is the number of
\* live objects that have the model.
C33_Referencing(model) == {h \in Handles(Scene) : Live(Scene, h) /\ Inst(Scene, h).model = model}

C33_CallbackIffReferenced ==
    \A model \in Models :
        /\ model \in DOMAIN m_model_loaded_callbacks <=> C33_Referencing(model) # {}
        /\ model \in DOMAIN m_model_loaded_callbacks =>
               m_model_loaded_callbacks[model] = Cardinality(C33_Referencing(model))

\* Two objects have model 1, whose callback counts both of them; the ready
\* model 2 has no object and no callback.
C33_Witness ==
    /\ C33_Referencing(1) = {0, 1}
    /\ m_model_loaded_callbacks = (1 :> 2)
    /\ model_ready[2]
    /\ ref_count = (1 :> 2) @@ (2 :> 0)

\* C34: the object of every handle a job visits has a model and a mesh list,
\* and the list is longer than the last index of the LOD range the job gets
\* for the handle: the job reads no mesh outside the list.
C34_MeshListLength(r) ==
    IF r.meshes.ptr = "model" THEN MeshCount(r.meshes.of) ELSE Len(r.meshes.mats)

C34_Visited(k) == cull_result[m_jobs[k].bucket][m_jobs[k].next + 1]

C34_JobsReadInsideMeshList ==
    [][pc # "idle" =>
          \A k \in Stepped :
              LET r == Inst(Scene, C34_Visited(k))
                  lod == getLODMeshIndices(r.model,
                             squaredDistance(Scene, m_lod_multiplier, frame, C34_Visited(k)))
              IN  /\ r.model # NoModel
                  /\ r.meshes.ptr # "nullptr"
                  /\ lod.from >= 0
                  /\ lod.to < C34_MeshListLength(r)
                  /\ r.mesh_count = C34_MeshListLength(r)]_vars

\* A job has visited the one object of model 2, which has private meshes,
\* and made the record of its last mesh.
C34_Witness ==
    /\ pc = "sync"
    /\ \E i \in 1 .. Len(m_temporary_infos) :
          /\ Len(m_temporary_infos[i]) = 1
          /\ m_temporary_infos[i][1].mesh.ptr = "custom"
          /\ m_temporary_infos[i][1].mesh.index = 2
    /\ ref_count[2] = 1

\* C35: a handle that hideModelInstance was called on has no entry in the
\* culling system until showModelInstance is called on it, whatever moves
\* and whichever model is unloaded and loaded again in between.
C35_HiddenStayOut == \A h \in hidden : ~isAdded(Scene, h)

\* C36: when the entity of a light moves, the light's influence list becomes
\* exactly the handles of the culling system whose sphere reaches into the
\* light's volume at the new position, and the list of every other light
\* stays as it was.
C36_LightMovedStep(i) == position'[m_point_lights[i].m_entity] # position[m_point_lights[i].m_entity]

C36_MovedLightListRebuilt ==
    [][\A i \in 1 .. Len(m_point_lights) :
          C36_LightMovedStep(i) =>
              /\ Elements(InfluenceList(After, i)) = IndexInRange(After, i)
              /\ \A j \in 1 .. Len(m_point_lights) \ {i} :
                    InfluenceList(After, j) = InfluenceList(Scene, j)]_vars

\* C37: setLightRange stores the new range in the addressed light and
\* changes nothing else: every influence list, the light's own too, the
\* other lights, the culling system and the objects are as they were.
C37_RangeSetStep(cmp, value) ==
    log' = <<[op |-> "setLightRange", arg |-> [light |-> cmp, value |-> value]]>>

C37_SetLightRangeKeepsLists ==
    [][\A cmp \in DOMAIN m_point_lights_map, value \in LightRanges :
          C37_RangeSetStep(cmp, value) =>
              /\ m_light_influenced_geometry' = m_light_influenced_geometry
              /\ m_point_lights' =
                     [m_point_lights EXCEPT ![m_point_lights_map[cmp] + 1].m_range = value]
              /\ m_point_lights_map' = m_point_lights_map
              /\ m_culling_system' = m_culling_system
              /\ m_model_instances' = m_model_instances]_vars

\* setLightRange has just made the range of a light smaller, and the light's
\* list still holds a handle whose sphere the light no longer reaches.
C37_Witness ==
    /\ Len(log) = 1
    /\ log[1].op = "setLightRange"
    /\ \E i \in 1 .. Len(m_point_lights) :
          /\ m_point_lights_map[log[1].arg.light] = i - 1
          /\ m_point_lights[i].m_range = 1
          /\ \E h \in Elements(InfluenceList(Scene, i)) :
                isAdded(Scene, h) /\ h \notin IndexInRange(Scene, i)

\* C38: an object with private meshes has a mesh at every index that
\* setModelInstanceMaterial has set a material at: the list is longer than
\* every such index, and stays so when the model becomes ready, is unloaded
\* and is ready again.
C38_SetIndices(r) == {o[1] : o \in Overrides(r)}

C38_OverrideListHoldsSetIndices ==
    [][\A h \in Handles(Scene) :
          (Live(Scene, h) /\ Live(After, h) /\ Inst(After, h).custom_meshes) =>
              \A index \in C38_SetIndices(Inst(Scene, h)) \cup C38_SetIndices(Inst(After, h)) :
                  /\ Inst(After, h).mesh_count >= index + 1
                  /\ Len(Inst(After, h).meshes.mats) >= index + 1]_vars

\* C39: an object has a pose exactly when its model has bones, a dead slot
\* has none, and no modelLoaded finds a pose on the object: the assertion
\* !r.pose fails in no step.
C39_PoseIffBones ==
    \A h \in Handles(Scene) :
        Inst(Scene, h).pose <=>
            (Live(Scene, h) /\ getBoneCount(Scene, Inst(Scene, h).model) > 0)

C39_PoseIffBonesNeverFound ==
    /\ []C39_PoseIffBones
    /\ [][~Failed(After, "ASSERT modelLoaded: !r.pose")]_vars

\* The skinned model 2 has just become ready for an object that has its pose,
\* next to an object of the ready model 1, which has no bones and no pose.
C39_Witness ==
    /\ Size(Scene) = 2
    /\ AddCalls(Now, 0) = 1
    /\ Inst(Scene, 0).model = 2
    /\ Inst(Scene, 0).pose
    /\ ref_count[2] = 1
    /\ HasReadyModel(Scene, 1)
    /\ Inst(Scene, 1).model = 1
    /\ ~Inst(Scene, 1).pose

\* C40: no call of allocateCustomMeshes(object, count) copies or constructs
\* more than count meshes in the new array of count elements: no step has a
\* copy loop that runs past the end of the array, also when count is below
\* the mesh count the object had.
C40_CopiesAtMostCount ==
    [][~Failed(After, "allocateCustomMeshes: copy past the end")]_vars

====
